---- MODULE Spec2Model ----
(***************************************************************************)
(* Model of .codex/tools/session-analyzer/parser.py: parse_session reads a *)
(* rollout file line by line, classifies each JSON record into an event,   *)
(* tracks the session's time bounds and returns the events sorted by       *)
(* (epoch, index).                                                         *)
(*                                                                         *)
(* Texts are sequences of one-character strings.  Instants are integers in *)
(* an abstract tick (one tick = one microsecond of the datetime type).     *)
(***************************************************************************)
EXTENDS Integers, Sequences, FiniteSets, TLC

(***************************************************************************)
(* Bounds of the model.                                                    *)
(***************************************************************************)
\* number of lines of the input file
MaxLines == 2
\* the positive --max-chars value tried next to the default 0
MaxCharsN == 4
\* binary64 scaled to the model's ticks: instants of magnitude above
\* FloatExact ticks are no longer all representable and round to an even
\* tick (for real datetimes: microseconds beyond 2^33 seconds)
FloatExact == 8
\* UTC offset, in ticks, of the local zone that datetime.timestamp() applies
\* to a naive datetime
LocalUtcOffset == 1

(***************************************************************************)
(* Program constants.                                                      *)
(***************************************************************************)
\* summarize_text's default max_len
DefaultSummaryLen == 70
\* max_len passed for event summaries
EventSummaryLen == 120
\* max_len passed for ghost_snapshot / unrecognized event_msg details
OpaqueDetailLen == 200
\* first_line[:120] in summarize_tool_output
FirstLineLen == 120
\* session_id[:8] in summarize_session_meta
ShortIdLen == 8

(***************************************************************************)
(* Text helpers (Python str operations used by the parser).                *)
(***************************************************************************)
Min(a, b) == IF a <= b THEN a ELSE b

\* characters matched by \s and removed by str.strip()
Whitespace == {" ", "\n", "\t"}

\* characters matched by \d
DigitChars == {"0", "1", "2", "3", "4", "5", "6", "7", "8", "9"}

\* text[:n] for n >= 0
Take(text, n) == SubSeq(text, 1, Min(n, Len(text)))

\* text[n:] for n >= 0
Drop(text, n) == SubSeq(text, n + 1, Len(text))

\* c * n
Rep(c, n) == [i \in 1..n |-> c]

\* text.lstrip()
LStrip(text) ==
    IF \A i \in 1..Len(text) : text[i] \in Whitespace THEN <<>>
    ELSE LET k == CHOOSE i \in 1..Len(text) :
                      /\ text[i] \notin Whitespace
                      /\ \A j \in 1..(i - 1) : text[j] \in Whitespace
         IN  SubSeq(text, k, Len(text))

\* text.rstrip()
RStrip(text) ==
    IF \A i \in 1..Len(text) : text[i] \in Whitespace THEN <<>>
    ELSE LET k == CHOOSE i \in 1..Len(text) :
                      /\ text[i] \notin Whitespace
                      /\ \A j \in (i + 1)..Len(text) : text[j] \in Whitespace
         IN  SubSeq(text, 1, k)

\* text.strip()
Strip(text) == RStrip(LStrip(text))

\* re.sub(r"\s+", " ", text): every maximal run of whitespace becomes one
\* space, so the first character of a run is kept as " " and the rest dropped
CollapseWs(text) ==
    LET kept == SelectSeq([i \in 1..Len(text) |-> i], LAMBDA i :
                    \/ text[i] \notin Whitespace
                    \/ i = 1
                    \/ text[i - 1] \notin Whitespace)
    IN  [k \in 1..Len(kept) |->
            IF text[kept[k]] \in Whitespace THEN " " ELSE text[kept[k]]]

\* does lit occur in text starting at position i
MatchAt(text, lit, i) ==
    /\ i >= 1
    /\ i + Len(lit) - 1 <= Len(text)
    /\ SubSeq(text, i, i + Len(lit) - 1) = lit

\* lit in text
Contains(text, lit) == \E i \in 1..(Len(text) + 1) : MatchAt(text, lit, i)

\* str(n) for n >= 0
RECURSIVE IntText(_)
IntText(n) ==
    LET d == <<"0", "1", "2", "3", "4", "5", "6", "7", "8", "9">>
    IN  IF n < 10 THEN <<d[n + 1]>> ELSE IntText(n \div 10) \o <<d[(n % 10) + 1]>>

\* "\n".join(parts)
RECURSIVE JoinLines(_)
JoinLines(parts) ==
    IF parts = <<>> THEN <<>>
    ELSE IF Len(parts) = 1 THEN parts[1]
    ELSE parts[1] \o <<"\n">> \o JoinLines(Tail(parts))

\* [p for p in parts if p]
NonEmptyParts(parts) == SelectSeq(parts, LAMBDA p : p # <<>>)

\* text.splitlines(), for the line break "\n"
RECURSIVE SplitLines(_)
SplitLines(text) ==
    IF text = <<>> THEN <<>>
    ELSE IF \E i \in 1..Len(text) : text[i] = "\n"
         THEN LET i == CHOOSE k \in 1..Len(text) :
                           /\ text[k] = "\n"
                           /\ \A j \in 1..(k - 1) : text[j] # "\n"
              IN  <<SubSeq(text, 1, i - 1)>> \o SplitLines(Drop(text, i))
         ELSE <<text>>

NoSummaryText == <<"(", "n", "o", " ", "s", "u", "m", "m", "a", "r", "y", ")">>
Dots == <<".", ".", ".">>
TruncHead == <<"\n", ".", ".", ".", "[", "t", "r", "u", "n", "c", "a", "t", "e", "d", " ">>
TruncTail == <<" ", "c", "h", "a", "r", "s", "]">>
ExitCodeLit == <<"E", "x", "i", "t", " ", "c", "o", "d", "e", ":">>
OutputLit == <<"O", "u", "t", "p", "u", "t", ":">>
ExitEq == <<"e", "x", "i", "t", "=">>
EncryptedNote == <<"(", "e", "n", "c", "r", "y", "p", "t", "e", "d", "_", "c", "o", "n", "t", "e", "n", "t", " ", "p", "r", "e", "s", "e", "n", "t", ")">>

\* the characters of the string constants the parser writes into texts
Chars(s) ==
    CASE s = "" -> <<>>
      [] s = "session_meta" -> <<"s", "e", "s", "s", "i", "o", "n", "_", "m", "e", "t", "a">>
      [] s = "turn_context" -> <<"t", "u", "r", "n", "_", "c", "o", "n", "t", "e", "x", "t">>
      [] s = "event_msg" -> <<"e", "v", "e", "n", "t", "_", "m", "s", "g">>
      [] s = "reasoning" -> <<"r", "e", "a", "s", "o", "n", "i", "n", "g">>
      [] s = "ghost_snapshot" -> <<"g", "h", "o", "s", "t", "_", "s", "n", "a", "p", "s", "h", "o", "t">>
      [] s = "agent_reasoning" -> <<"a", "g", "e", "n", "t", "_", "r", "e", "a", "s", "o", "n", "i", "n", "g">>
      [] s = "token_count" -> <<"t", "o", "k", "e", "n", "_", "c", "o", "u", "n", "t">>
      [] s = "task_started" -> <<"t", "a", "s", "k", "_", "s", "t", "a", "r", "t", "e", "d">>
      [] s = "unknown" -> <<"u", "n", "k", "n", "o", "w", "n">>
      [] s = "shell" -> <<"s", "h", "e", "l", "l">>
      [] s = "c1" -> <<"c", "1">>
      [] s = "c2" -> <<"c", "2">>
      [] s = "command" -> <<"c", "o", "m", "m", "a", "n", "d">>
      [] s = "url" -> <<"u", "r", "l">>
      [] s = "file_path" -> <<"f", "i", "l", "e", "_", "p", "a", "t", "h">>
      [] s = "path" -> <<"p", "a", "t", "h">>
      [] s = "uri" -> <<"u", "r", "i">>
      [] s = "workdir" -> <<"w", "o", "r", "k", "d", "i", "r">>
      [] s = "timeout_ms" -> <<"t", "i", "m", "e", "o", "u", "t", "_", "m", "s">>
      [] s = "justification" -> <<"j", "u", "s", "t", "i", "f", "i", "c", "a", "t", "i", "o", "n">>
      [] s = "note" -> <<"n", "o", "t", "e">>
      [] s = "id" -> <<"i", "d">>
      [] s = "cwd" -> <<"c", "w", "d">>
      [] s = "type" -> <<"t", "y", "p", "e">>
      [] s = "model" -> <<"m", "o", "d", "e", "l">>
      [] s = "cli_version" -> <<"c", "l", "i", "_", "v", "e", "r", "s", "i", "o", "n">>
      [] s = "total" -> <<"t", "o", "t", "a", "l">>
      [] s = "last" -> <<"l", "a", "s", "t">>
      [] s = "text" -> <<"t", "e", "x", "t">>
      [] s = "summary_text" -> <<"s", "u", "m", "m", "a", "r", "y", "_", "t", "e", "x", "t">>
      [] s = "input_text" -> <<"i", "n", "p", "u", "t", "_", "t", "e", "x", "t">>
      [] s = "output_text" -> <<"o", "u", "t", "p", "u", "t", "_", "t", "e", "x", "t">>
      [] s = "image" -> <<"i", "m", "a", "g", "e">>
      [] s = "total_tokens" -> <<"t", "o", "t", "a", "l", "_", "t", "o", "k", "e", "n", "s">>

\* summarize_text(text, max_len)
summarize_text(text, max_len) ==
    LET cleaned == CollapseWs(Strip(text))
    IN  IF cleaned = <<>> THEN NoSummaryText
        ELSE IF Len(cleaned) <= max_len THEN cleaned
        ELSE Take(cleaned, max_len - 3) \o Dots

\* truncate_text(text, max_chars), text a str
truncate_text(text, max_chars) ==
    IF text = <<>> THEN <<>>
    ELSE IF max_chars # 0 /\ Len(text) > max_chars
         THEN Take(text, max_chars) \o TruncHead \o IntText(Len(text) - max_chars) \o TruncTail
    ELSE text

(***************************************************************************)
(* Timestamps.  A datetime is a wall-clock reading with, when aware, its   *)
(* UTC offset; NoneTs is Python's None.                                    *)
(***************************************************************************)
NoneTs == [some |-> FALSE, aware |-> FALSE, wall |-> 0, off |-> 0]

AwareTs(wall, off) == [some |-> TRUE, aware |-> TRUE, wall |-> wall, off |-> off]

NaiveTs(wall) == [some |-> TRUE, aware |-> FALSE, wall |-> wall, off |-> 0]

\* the JSON "timestamp" member of a record: k says what the line holds
\*   absent  no such key            falsy   null, "", 0, [] or {}
\*   nonstr  a truthy non-string    bad     a string fromisoformat rejects
\*   zulu    ISO-8601 ending in Z   offset  ISO-8601 with a UTC offset
\*   naive   ISO-8601 without offset
RawTs(k, wall, off) == [k |-> k, wall |-> wall, off |-> off]

\* parse_ts(value)
parse_ts(value) ==
    CASE value.k \in {"absent", "falsy"} -> NoneTs
      [] value.k \in {"nonstr", "bad"} -> NoneTs
      [] value.k = "zulu" -> AwareTs(value.wall, 0)
      [] value.k = "offset" -> AwareTs(value.wall, value.off)
      [] value.k = "naive" -> NaiveTs(value.wall)

\* the instant a datetime denotes, on the scale of its own kind
\* (UTC for aware datetimes, wall clock for naive ones)
Instant(ts) == ts.wall - ts.off

\* datetime comparison raises TypeError between naive and aware operands
Comparable(a, b) == a.aware = b.aware

\* conversion of an exact tick count to the float datetime.timestamp() returns
ToFloat(x) ==
    IF x > FloatExact THEN x - (x % 2)
    ELSE IF x < 0 - FloatExact THEN 0 - ((0 - x) - ((0 - x) % 2))
    ELSE x

\* ts.timestamp()
timestamp(ts) ==
    IF ts.aware THEN ToFloat(ts.wall - ts.off)
    ELSE ToFloat(ts.wall - LocalUtcOffset)

\* format_duration(start_ts, end_ts): "?" or the elapsed time
format_duration(start_ts, end_ts) ==
    IF ~start_ts.some \/ ~end_ts.some THEN [known |-> FALSE, delta |-> 0]
    ELSE [known |-> TRUE, delta |-> Instant(end_ts) - Instant(start_ts)]

(***************************************************************************)
(* JSON values.  t is the JSON type ("absent" when the key is missing);    *)
(* s the characters of a string or the digits of a number; items the       *)
(* elements of a list; entries the members of an object, in order.         *)
(* "jsonstr" is a string whose content is the JSON text of an object.      *)
(***************************************************************************)
JAbsent == [t |-> "absent", s |-> <<>>, items |-> <<>>, entries |-> <<>>]
JNull == [t |-> "null", s |-> <<>>, items |-> <<>>, entries |-> <<>>]
JStr(s) == [t |-> "str", s |-> s, items |-> <<>>, entries |-> <<>>]
JNum(s) == [t |-> "num", s |-> s, items |-> <<>>, entries |-> <<>>]
JList(items) == [t |-> "list", s |-> <<>>, items |-> items, entries |-> <<>>]
JDict(entries) == [t |-> "dict", s |-> <<>>, items |-> <<>>, entries |-> entries]

\* an element of a list: a string, a number or an object with the members
\* "type", "text" and "summary_text"
StrItem(s) == [it |-> "str", itype |-> "", s |-> s, text |-> JAbsent, summary_text |-> JAbsent]
NumItem(s) == [it |-> "num", itype |-> "", s |-> s, text |-> JAbsent, summary_text |-> JAbsent]
DictItem(itype, text, summary_text) ==
    [it |-> "dict", itype |-> itype, s |-> <<>>, text |-> text, summary_text |-> summary_text]

Entry(key, val) == [key |-> key, val |-> val]

\* Python truth value of a JSON value
Truthy(v) ==
    CASE v.t \in {"absent", "null"} -> FALSE
      [] v.t \in {"str", "jsonstr"} -> v.s # <<>>
      [] v.t = "num" -> v.s # <<"0">>
      [] v.t = "list" -> v.items # <<>>
      [] v.t = "dict" -> v.entries # <<>>

IsStr(v) == v.t \in {"str", "jsonstr"}

\* json.dumps escaping of one character of a string
EscapeChar(c) ==
    CASE c = "\n" -> <<"\\", "n">>
      [] c = "\t" -> <<"\\", "t">>
      [] c = "\"" -> <<"\\", "\"">>
      [] c = "\\" -> <<"\\", "\\">>
      [] OTHER -> <<c>>

RECURSIVE Escape(_)
Escape(text) ==
    IF text = <<>> THEN <<>>
    ELSE IF Len(text) = 1 THEN EscapeChar(text[1])
    ELSE Escape(SubSeq(text, 1, Len(text) \div 2))
         \o Escape(SubSeq(text, Len(text) \div 2 + 1, Len(text)))

Quoted(text) == <<"\"">> \o Escape(text) \o <<"\"">>

\* sep.join(parts)
RECURSIVE Join(_, _)
Join(sep, parts) ==
    IF parts = <<>> THEN <<>>
    ELSE IF Len(parts) = 1 THEN parts[1]
    ELSE parts[1] \o sep \o Join(sep, Tail(parts))

\* json.dumps(obj, indent=2) of an object with string members, at a nesting depth
DumpEntries(entries, depth) ==
    IF entries = <<>> THEN <<"{", "}">>
    ELSE <<"{", "\n">>
         \o Join(<<",", "\n">>,
                 [i \in 1..Len(entries) |->
                     Rep(" ", 2 * (depth + 1)) \o Quoted(Chars(entries[i].key))
                       \o <<":", " ">> \o Quoted(entries[i].val)])
         \o <<"\n">> \o Rep(" ", 2 * depth) \o <<"}">>

\* json.dumps of a scalar member
DumpScalar(v) ==
    CASE v.t = "null" -> <<"n", "u", "l", "l">>
      [] v.t = "num" -> v.s
      [] OTHER -> Quoted(v.s)

\* the members an object element carries, as entries
ItemEntries(item) ==
    (IF item.itype # "" THEN <<Entry("type", Chars(item.itype))>> ELSE <<>>)
    \o (IF item.text.t = "str" THEN <<Entry("text", item.text.s)>> ELSE <<>>)
    \o (IF item.summary_text.t = "str"
        THEN <<Entry("summary_text", item.summary_text.s)>> ELSE <<>>)

\* json.dumps of a list element at depth 1
DumpItem(item) ==
    CASE item.it = "str" -> Quoted(item.s)
      [] item.it = "num" -> item.s
      [] item.it = "dict" -> DumpEntries(ItemEntries(item), 1)

\* json.dumps(value, indent=2, ensure_ascii=False)
json_dumps(v) ==
    CASE v.t = "null" -> <<"n", "u", "l", "l">>
      [] v.t = "num" -> v.s
      [] v.t \in {"str", "jsonstr"} -> Quoted(v.s)
      [] v.t = "dict" -> DumpEntries(v.entries, 0)
      [] v.t = "list" ->
            IF v.items = <<>> THEN <<"[", "]">>
            ELSE <<"[", "\n">>
                 \o Join(<<",", "\n">>,
                         [i \in 1..Len(v.items) |-> <<" ", " ">> \o DumpItem(v.items[i])])
                 \o <<"\n", "]">>

\* a string holding the compact JSON text of an object: json.loads gives entries
JJsonStr(entries) ==
    [t |-> "jsonstr",
     s |-> <<"{">>
           \o Join(<<",", " ">>,
                   [i \in 1..Len(entries) |->
                       Quoted(Chars(entries[i].key)) \o <<":", " ">> \o Quoted(entries[i].val)])
           \o <<"}">>,
     items |-> <<>>, entries |-> entries]

\* stringify_details(value)
stringify_details(v) ==
    CASE v.t \in {"absent", "null"} -> <<>>
      [] v.t \in {"str", "jsonstr"} -> v.s
      [] OTHER -> json_dumps(v)

\* maybe_parse_json(value)
maybe_parse_json(v) ==
    IF v.t = "jsonstr" THEN JDict(v.entries) ELSE v

\* the result of an operation that may raise
Ok(v) == [ok |-> TRUE, v |-> v]
Raise == [ok |-> FALSE, v |-> <<>>]

\* the texts extract_text collects from a content list, and whether one of
\* them is not a str
ContentParts(items) ==
    LET picked == SelectSeq(items, LAMBDA item :
                      item.it = "dict" /\ item.itype \in {"input_text", "output_text"})
    IN  [i \in 1..Len(picked) |-> picked[i].text]

\* extract_text(content); "".join raises TypeError on a part that is no str
extract_text(content) ==
    CASE IsStr(content) -> Ok(content.s)
      [] content.t # "list" -> Ok(<<>>)
      [] OTHER ->
            LET parts == ContentParts(content.items)
            IN  IF \E i \in 1..Len(parts) : parts[i].t \notin {"absent", "str"}
                THEN Raise
                ELSE Ok(Join(<<>>, [i \in 1..Len(parts) |-> parts[i].s]))

(***************************************************************************)
(* Tool arguments and tool output.                                         *)
(***************************************************************************)
\* the keys summarize_tool_args looks for, in order
SummaryKeys == <<"command", "url", "file_path", "path", "uri">>

\* the keys format_tool_args lists first, in order
PreferredKeys ==
    <<"command", "url", "file_path", "path", "uri", "workdir", "timeout_ms", "justification">>

\* the other keys of the modelled objects, in the alphabetical order sorted() gives
OtherKeys == <<"cwd", "id", "model", "note", "type">>

HasKey(entries, key) == \E i \in 1..Len(entries) : entries[i].key = key

ValueOf(entries, key) ==
    entries[CHOOSE i \in 1..Len(entries) : entries[i].key = key].val

\* the entries in the order of format_tool_args's sort key
SortedEntries(entries) ==
    LET order == PreferredKeys \o OtherKeys
        present == SelectSeq(order, LAMBDA k : HasKey(entries, k))
    IN  [i \in 1..Len(present) |-> Entry(present[i], ValueOf(entries, present[i]))]

\* format_tool_args(args)
format_tool_args(args) ==
    LET parsed == maybe_parse_json(args)
    IN  CASE parsed.t = "dict" ->
                LET es == SortedEntries(parsed.entries)
                IN  JoinLines([i \in 1..Len(es) |->
                        Chars(es[i].key) \o <<":", " ">> \o es[i].val])
          [] parsed.t = "list" ->
                JoinLines([i \in 1..Len(parsed.items) |->
                    IF parsed.items[i].it = "dict"
                    THEN DumpEntries(ItemEntries(parsed.items[i]), 0)
                    ELSE parsed.items[i].s])
          [] OTHER -> stringify_details(parsed)

\* summarize_tool_args(args)
summarize_tool_args(args) ==
    LET parsed == maybe_parse_json(args)
        found == SelectSeq(SummaryKeys, LAMBDA k : HasKey(parsed.entries, k))
    IN  IF parsed.t = "dict" /\ found # <<>>
        THEN Chars(found[1]) \o <<"=">> \o ValueOf(parsed.entries, found[1])
        ELSE summarize_text(stringify_details(parsed), EventSummaryLen)

\* does re.search(r"Exit code:\s*(\d+)", output) match starting at position i
ExitMatchAt(output, i) ==
    /\ MatchAt(output, ExitCodeLit, i)
    /\ LET rest == LStrip(Drop(output, i + Len(ExitCodeLit) - 1))
       IN  rest # <<>> /\ Head(rest) \in DigitChars

HasExitMatch(output) == \E i \in 1..Len(output) : ExitMatchAt(output, i)

\* the longest prefix of digits
RECURSIVE DigitRun(_)
DigitRun(text) ==
    IF text = <<>> \/ Head(text) \notin DigitChars THEN <<>>
    ELSE <<Head(text)>> \o DigitRun(Tail(text))

\* group(1) of the leftmost match
ExitGroup(output) ==
    LET i == CHOOSE k \in 1..Len(output) :
                /\ ExitMatchAt(output, k)
                /\ \A j \in 1..(k - 1) : ~ExitMatchAt(output, j)
    IN  DigitRun(LStrip(Drop(output, i + Len(ExitCodeLit) - 1)))

\* tool_output_error(output), output a str
tool_output_error(output) ==
    IF output = <<>> THEN FALSE
    ELSE IF HasExitMatch(output) THEN ExitGroup(output) # <<"0">>
    ELSE FALSE

\* summarize_tool_output(output), output a str
summarize_tool_output(output) ==
    IF output = <<>> THEN <<>>
    ELSE
      LET stripped == [i \in 1..Len(SplitLines(output)) |-> Strip(SplitLines(output)[i])]
          lines == NonEmptyParts(stripped)
          hasOutput == \E i \in 1..Len(lines) : lines[i] = OutputLit
          idx == CHOOSE k \in 1..Len(lines) :
                    /\ lines[k] = OutputLit
                    /\ \A j \in 1..(k - 1) : lines[j] # OutputLit
          first_line ==
              IF hasOutput THEN (IF idx + 1 <= Len(lines) THEN lines[idx + 1] ELSE <<>>)
              ELSE IF lines # <<>> THEN lines[1]
              ELSE <<>>
          pieces ==
              (IF HasExitMatch(output) THEN <<ExitEq \o ExitGroup(output)>> ELSE <<>>)
              \o (IF first_line # <<>> THEN <<Take(first_line, FirstLineLen)>> ELSE <<>>)
      IN  IF pieces # <<>> THEN Join(<<" ">>, pieces)
          ELSE summarize_text(output, EventSummaryLen)

(***************************************************************************)
(* Payloads.  shape is "dict" for a JSON object, "falsy" when the record   *)
(* has no payload or a null/empty one (the parser substitutes {}), and     *)
(* "nondict" for a truthy value that is no object.  type, role, name and   *)
(* call_id are strings, "" when the key is missing; extra holds members    *)
(* the parser does not know.                                               *)
(***************************************************************************)
PBase ==
    [shape |-> "dict", type |-> "", role |-> "", name |-> "", call_id |-> "",
     content |-> JAbsent, message |-> JAbsent, text |-> JAbsent, output |-> JAbsent,
     arguments |-> JAbsent, summary |-> JAbsent, encrypted_content |-> JAbsent,
     id |-> JAbsent, cwd |-> JAbsent, model |-> JAbsent, cli_version |-> JAbsent,
     total_tokens |-> JAbsent, last_tokens |-> JAbsent, extra |-> <<>>]

PFalsy == [PBase EXCEPT !.shape = "falsy"]

PNonDict == [PBase EXCEPT !.shape = "nondict"]

\* obj.get("payload", {}) or {}
PayloadOrEmpty(payload) == IF payload.shape = "falsy" THEN PBase ELSE payload

\* the members of a payload the model renders, as entries in file order
PayloadEntries(payload) ==
    (IF payload.type # "" THEN <<Entry("type", Chars(payload.type))>> ELSE <<>>)
    \o (IF payload.id.t = "str" THEN <<Entry("id", payload.id.s)>> ELSE <<>>)
    \o (IF payload.cwd.t = "str" THEN <<Entry("cwd", payload.cwd.s)>> ELSE <<>>)
    \o (IF payload.model.t = "str" THEN <<Entry("model", payload.model.s)>> ELSE <<>>)
    \o payload.extra

\* extract_reasoning_text(payload): the parts collected, then "\n".join of
\* the truthy ones, which raises TypeError on a part that is no str
ReasoningParts(payload) ==
    LET items == IF payload.summary.t = "list" THEN payload.summary.items ELSE <<>>
        kept == SelectSeq(items, LAMBDA item :
                    \/ item.it = "dict" /\ item.summary_text.t # "absent"
                    \/ item.it = "str")
        fromSummary ==
            [i \in 1..Len(kept) |->
                IF kept[i].it = "str" THEN JStr(kept[i].s)
                ELSE IF Truthy(kept[i].summary_text) THEN kept[i].summary_text
                ELSE JStr(<<>>)]
    IN  fromSummary
        \o (IF Truthy(payload.content) THEN <<payload.content>> ELSE <<>>)
        \o (IF Truthy(payload.encrypted_content) THEN <<JStr(EncryptedNote)>> ELSE <<>>)

extract_reasoning_text(payload) ==
    LET parts == SelectSeq(ReasoningParts(payload), Truthy)
    IN  IF \E i \in 1..Len(parts) : ~IsStr(parts[i]) THEN Raise
        ELSE Ok(JoinLines([i \in 1..Len(parts) |-> parts[i].s]))

\* format_kv_line(label, data, keys) for a usage object holding total_tokens
format_kv_line(label, tokens) ==
    IF tokens.t \in {"absent", "null"} THEN <<>>
    ELSE Chars(label) \o <<":", " ">> \o Chars("total_tokens") \o <<"=">> \o tokens.s

\* format_token_count(payload)
format_token_count(payload) ==
    JoinLines(NonEmptyParts(<<format_kv_line("total", payload.total_tokens),
                              format_kv_line("last", payload.last_tokens)>>))

\* summarize_token_count(payload)
summarize_token_count(payload) ==
    LET parts ==
            (IF payload.total_tokens.t \in {"absent", "null"} THEN <<>>
             ELSE <<Chars("total") \o <<"=">> \o payload.total_tokens.s>>)
            \o (IF payload.last_tokens.t \in {"absent", "null"} THEN <<>>
                ELSE <<Chars("last") \o <<"=">> \o payload.last_tokens.s>>)
    IN  IF parts = <<>> THEN Chars("token_count")
        ELSE Chars("token_count") \o <<" ">> \o Join(<<" ">>, parts)

\* format_session_meta(payload), for the keys id, cwd and cli_version
format_session_meta(payload) ==
    JoinLines(
        (IF payload.id.t # "absent"
         THEN <<Chars("id") \o <<":", " ">> \o payload.id.s>> ELSE <<>>)
        \o (IF payload.cwd.t # "absent"
            THEN <<Chars("cwd") \o <<":", " ">> \o payload.cwd.s>> ELSE <<>>)
        \o (IF payload.cli_version.t # "absent"
            THEN <<Chars("cli_version") \o <<":", " ">> \o payload.cli_version.s>> ELSE <<>>))

\* summarize_session_meta(payload)
summarize_session_meta(payload) ==
    Join(<<" ">>,
        <<Chars("session_meta")>>
        \o (IF Truthy(payload.id)
            THEN <<Chars("id") \o <<"=">> \o Take(payload.id.s, ShortIdLen)>> ELSE <<>>)
        \o (IF Truthy(payload.cwd)
            THEN <<Chars("cwd") \o <<"=">> \o payload.cwd.s>> ELSE <<>>))

\* format_turn_context(payload), for the keys cwd and model
format_turn_context(payload) ==
    JoinLines(
        (IF Truthy(payload.cwd)
         THEN <<Chars("cwd") \o <<":", " ">> \o payload.cwd.s>> ELSE <<>>)
        \o (IF Truthy(payload.model)
            THEN <<Chars("model") \o <<":", " ">> \o payload.model.s>> ELSE <<>>))

\* summarize_turn_context(payload)
summarize_turn_context(payload) ==
    Join(<<" ">>,
        <<Chars("turn_context")>>
        \o (IF Truthy(payload.cwd)
            THEN <<Chars("cwd") \o <<"=">> \o payload.cwd.s>> ELSE <<>>)
        \o (IF Truthy(payload.model)
            THEN <<Chars("model") \o <<"=">> \o payload.model.s>> ELSE <<>>))

(***************************************************************************)
(* The locals of parse_session, as one record L, and the loop body.        *)
(***************************************************************************)
CATEGORY_USER == "user"
CATEGORY_ASSISTANT == "assistant"
CATEGORY_TOOL == "tool"
CATEGORY_THINKING == "thinking"
CATEGORY_LIFECYCLE == "lifecycle"
CATEGORY_OTHER == "other"

EVENT_USER == "user"
EVENT_THINKING == "thinking"
EVENT_TEXT == "text"
EVENT_TOOL_USE == "tool_use"
EVENT_POST_TOOL == "post_tool_use"
EVENT_LIFECYCLE == "lifecycle"

\* the keyword arguments of one add_event call
Ev(category, source, kind, role, name, summary, details, event_type, error) ==
    [index |-> 0, ts |-> NoneTs, epoch |-> 0,
     category |-> category, source |-> source, kind |-> kind, role |-> role,
     name |-> name, summary |-> summary, details |-> details, raw |-> <<>>,
     event_type |-> event_type, error |-> error]

\* add_event without its index += 1
add_eventSameIndex(L, ts, ev) ==
    [L EXCEPT
        !.events = Append(@, [ev EXCEPT !.index = L.index,
                                        !.ts = ts,
                                        !.epoch = IF ts.some THEN timestamp(ts) ELSE 0])]

\* add_event(ts, ...): append the event and advance index
add_event(L, ts, ev) ==
    [L EXCEPT
        !.events = Append(@, [ev EXCEPT !.index = L.index,
                                        !.ts = ts,
                                        !.epoch = IF ts.some THEN timestamp(ts) ELSE 0]),
        !.index = @ + 1]

\* tool_counts[name] += 1
CountUp(counts, name) ==
    IF name \in DOMAIN counts THEN [counts EXCEPT ![name] = @ + 1]
    ELSE [n \in DOMAIN counts \cup {name} |-> IF n = name THEN 1 ELSE counts[n]]

\* the bounds with the end set to the timestamp last seen, not the latest
UpdateBoundsLastSeen(L, ts) ==
    IF ~ts.some THEN Ok(L)
    ELSE IF L.first_ts.some /\ ~Comparable(ts, L.first_ts) THEN Raise
    ELSE Ok([L EXCEPT
                !.first_ts = IF ~L.first_ts.some \/ Instant(ts) < Instant(L.first_ts)
                             THEN ts ELSE @,
                !.last_ts = ts])

\* lines 372-377: the running start and end bounds; comparing a naive with
\* an aware datetime raises TypeError
UpdateBounds(L, ts) ==
    IF ~ts.some THEN Ok(L)
    ELSE IF L.first_ts.some /\ ~Comparable(ts, L.first_ts) THEN Raise
    ELSE Ok([L EXCEPT
                !.first_ts = IF ~L.first_ts.some \/ Instant(ts) < Instant(L.first_ts)
                             THEN ts ELSE @,
                !.last_ts = IF ~L.last_ts.some \/ Instant(ts) > Instant(L.last_ts)
                            THEN ts ELSE @])

\* obj_type == "session_meta"
SessionMetaBranch(L, ts, payload, max_chars) ==
    LET meta == PayloadOrEmpty(payload)
        details == truncate_text(format_session_meta(meta), max_chars)
        L1 == [L EXCEPT !.meta = meta,
                        !.cli_version = IF Truthy(meta.cli_version)
                                        THEN meta.cli_version ELSE @]
    IN  Ok(add_event(L1, ts,
            Ev(CATEGORY_LIFECYCLE, "session_meta", "session_meta", "", "",
               summarize_session_meta(meta), details, EVENT_LIFECYCLE, FALSE)))

\* obj_type == "turn_context"
TurnContextBranch(L, ts, payload, max_chars) ==
    LET p == PayloadOrEmpty(payload)
        details == truncate_text(format_turn_context(p), max_chars)
        L1 == [L EXCEPT !.model = IF Truthy(p.model) THEN p.model ELSE @]
    IN  Ok(add_event(L1, ts,
            Ev(CATEGORY_LIFECYCLE, "turn_context", "turn_context", "", "",
               summarize_turn_context(p), details, EVENT_LIFECYCLE, FALSE)))

\* the message branch with a filter that drops a user message that is the
\* probe phrase once trimmed
MessageBranchProbeDropped(L, ts, payload, max_chars) ==
    LET role == payload.role
        text == extract_text(payload.content)
        category == IF role = "user" THEN CATEGORY_USER
                    ELSE IF role = "assistant" THEN CATEGORY_ASSISTANT
                    ELSE CATEGORY_OTHER
        event_type == IF role = "user" THEN EVENT_USER ELSE EVENT_TEXT
        L1 == [L EXCEPT
                 !.user_messages = IF role = "user" THEN Append(@, text.v) ELSE @,
                 !.assistant_messages = IF role = "assistant" THEN Append(@, text.v) ELSE @]
    IN  IF ~text.ok THEN Raise
        ELSE IF role = "user" /\ Strip(text.v) = <<"w", "a", "r", "m", "u", "p">>
        THEN Ok(L)
        ELSE Ok(add_event(L1, ts,
                Ev(category, "response_item", "message", role, "",
                   summarize_text(text.v, EventSummaryLen),
                   truncate_text(text.v, max_chars), event_type, FALSE)))

\* payload_type == "message"
MessageBranch(L, ts, payload, max_chars) ==
    LET role == payload.role
        text == extract_text(payload.content)
        category == IF role = "user" THEN CATEGORY_USER
                    ELSE IF role = "assistant" THEN CATEGORY_ASSISTANT
                    ELSE CATEGORY_OTHER
        event_type == IF role = "user" THEN EVENT_USER ELSE EVENT_TEXT
        L1 == [L EXCEPT
                 !.user_messages = IF role = "user" THEN Append(@, text.v) ELSE @,
                 !.assistant_messages = IF role = "assistant" THEN Append(@, text.v) ELSE @]
    IN  IF ~text.ok THEN Raise
        ELSE Ok(add_event(L1, ts,
                Ev(category, "response_item", "message", role, "",
                   summarize_text(text.v, EventSummaryLen),
                   truncate_text(text.v, max_chars), event_type, FALSE)))

\* the function_call branch without its tool_counts[name] += 1
FunctionCallBranchUncounted(L, ts, payload, max_chars) ==
    LET name == IF payload.name = "" THEN "unknown" ELSE payload.name
        args_summary == summarize_tool_args(payload.arguments)
        summary == IF args_summary # <<>>
                   THEN Chars(name) \o <<":", " ">> \o args_summary
                   ELSE Chars(name)
    IN  Ok(add_event(L, ts,
            Ev(CATEGORY_TOOL, "response_item", "function_call", "", name,
               summary, truncate_text(format_tool_args(payload.arguments), max_chars),
               EVENT_TOOL_USE, FALSE)))

\* payload_type == "function_call"
FunctionCallBranch(L, ts, payload, max_chars) ==
    LET name == IF payload.name = "" THEN "unknown" ELSE payload.name
        args_summary == summarize_tool_args(payload.arguments)
        details == truncate_text(format_tool_args(payload.arguments), max_chars)
        summary == IF args_summary # <<>>
                   THEN Chars(name) \o <<":", " ">> \o args_summary
                   ELSE Chars(name)
        L1 == [L EXCEPT !.tool_counts = CountUp(@, name)]
    IN  Ok(add_event(L1, ts,
            Ev(CATEGORY_TOOL, "response_item", "function_call", "", name,
               summary, details, EVENT_TOOL_USE, FALSE)))

\* payload_type == "function_call_output"; truncate_text, re.search and
\* splitlines raise TypeError or AttributeError on a truthy output that is no str
FunctionCallOutputBranch(L, ts, payload, max_chars) ==
    LET output == IF Truthy(payload.output) THEN payload.output.s ELSE <<>>
    IN  IF Truthy(payload.output) /\ ~IsStr(payload.output) THEN Raise
        ELSE Ok(add_event(L, ts,
                Ev(CATEGORY_TOOL, "response_item", "function_call_output", "",
                   payload.call_id, summarize_tool_output(output),
                   truncate_text(output, max_chars), EVENT_POST_TOOL,
                   tool_output_error(output))))

\* payload_type == "reasoning"
ReasoningBranch(L, ts, payload, max_chars) ==
    LET reasoning_text == extract_reasoning_text(payload)
        shown == IF reasoning_text.v # <<>> THEN reasoning_text.v ELSE Chars("reasoning")
    IN  IF ~reasoning_text.ok THEN Raise
        ELSE Ok(add_event(L, ts,
                Ev(CATEGORY_THINKING, "response_item", "reasoning", "", "",
                   summarize_text(shown, EventSummaryLen),
                   truncate_text(reasoning_text.v, max_chars), EVENT_THINKING, FALSE)))

\* payload_type == "ghost_snapshot"
GhostSnapshotBranch(L, ts, payload, max_chars) ==
    Ok(add_event(L, ts,
        Ev(CATEGORY_LIFECYCLE, "response_item", "ghost_snapshot", "", "",
           Chars("ghost_snapshot"),
           summarize_text(json_dumps(JDict(PayloadEntries(payload))), OpaqueDetailLen),
           EVENT_LIFECYCLE, FALSE)))

\* a message or text member read with payload.get(key, ""), then passed to
\* truncate_text and summarize_text(text or fallback): these raise on a
\* value that is no str, except where "or" replaces a falsy one
TextMember(v, falsyOk) ==
    IF v.t = "absent" THEN Ok(<<>>)
    ELSE IF IsStr(v) THEN Ok(v.s)
    ELSE IF falsyOk /\ ~Truthy(v) THEN Ok(<<>>)
    ELSE Raise

\* event_type_payload == "user_message"
UserMessageBranch(L, ts, payload, max_chars) ==
    LET text == TextMember(payload.message, FALSE)
        L1 == [L EXCEPT !.user_messages = Append(@, text.v)]
    IN  IF ~text.ok THEN Raise
        ELSE Ok(add_event(L1, ts,
                Ev(CATEGORY_USER, "event_msg", "user_message", "user", "",
                   summarize_text(text.v, EventSummaryLen),
                   truncate_text(text.v, max_chars), EVENT_USER, FALSE)))

\* event_type_payload == "agent_message"
AgentMessageBranch(L, ts, payload, max_chars) ==
    LET text == TextMember(payload.message, FALSE)
        L1 == [L EXCEPT !.assistant_messages = Append(@, text.v)]
    IN  IF ~text.ok THEN Raise
        ELSE Ok(add_event(L1, ts,
                Ev(CATEGORY_ASSISTANT, "event_msg", "agent_message", "assistant", "",
                   summarize_text(text.v, EventSummaryLen),
                   truncate_text(text.v, max_chars), EVENT_TEXT, FALSE)))

\* event_type_payload == "agent_reasoning"
AgentReasoningBranch(L, ts, payload, max_chars) ==
    LET text == TextMember(payload.text, TRUE)
        shown == IF text.v # <<>> THEN text.v ELSE Chars("agent_reasoning")
    IN  IF ~text.ok THEN Raise
        ELSE Ok(add_event(L, ts,
                Ev(CATEGORY_THINKING, "event_msg", "agent_reasoning", "", "",
                   summarize_text(shown, EventSummaryLen),
                   truncate_text(text.v, max_chars), EVENT_THINKING, FALSE)))

\* event_type_payload == "token_count"
TokenCountBranch(L, ts, payload, max_chars) ==
    Ok(add_event(L, ts,
        Ev(CATEGORY_LIFECYCLE, "event_msg", "token_count", "", "",
           summarize_token_count(payload),
           truncate_text(format_token_count(payload), max_chars),
           EVENT_LIFECYCLE, FALSE)))

\* the fallback branch passing the payload's own type on as the event kind
OtherEventMsgBranchOwnKind(L, ts, payload, max_chars) ==
    LET label == IF payload.type # "" THEN payload.type ELSE "event_msg"
    IN  Ok(add_event(L, ts,
            Ev(CATEGORY_OTHER, "event_msg", label, "", "",
               Chars(label),
               summarize_text(json_dumps(JDict(PayloadEntries(payload))), OpaqueDetailLen),
               payload.type, FALSE)))

\* any other event_msg payload type
OtherEventMsgBranch(L, ts, payload, max_chars) ==
    LET label == IF payload.type # "" THEN payload.type ELSE "event_msg"
    IN  Ok(add_event(L, ts,
            Ev(CATEGORY_OTHER, "event_msg", label, "", "",
               Chars(label),
               summarize_text(json_dumps(JDict(PayloadEntries(payload))), OpaqueDetailLen),
               EVENT_LIFECYCLE, FALSE)))

\* lines 364-366: an empty or whitespace-only line is skipped
BlankBranch(L) == Ok(L)

\* the loop body without its try/except around json.loads
MalformedBranchUncaught(L) == Raise

\* lines 367-370: json.loads raised; the line is skipped
MalformedBranch(L) == Ok(L)

\* line 372: obj.get on a JSON value that is no object raises AttributeError
NonObjectBranch(L) == Raise

\* lines 386-590: a record whose type, or whose response_item payload type,
\* the parser does not know creates no event
NoEventBranch(L) == Ok(L)

RecordTypes == {"session_meta", "turn_context", "response_item", "event_msg"}

ResponseItemTypes ==
    {"message", "function_call", "function_call_output", "reasoning", "ghost_snapshot"}

EventMsgTypes == {"user_message", "agent_message", "agent_reasoning", "token_count"}

\* the branch of the loop body a line takes
BranchOf(L, line) ==
    CASE line.form = "blank" -> "blank"
      [] line.form = "malformed" -> "malformed"
      [] line.form = "value" -> "non_object"
      [] OTHER ->
            LET p == PayloadOrEmpty(line.payload)
            IN  IF ~UpdateBounds(L, parse_ts(line.timestamp)).ok THEN "ts_type_error"
                ELSE IF line.type \notin RecordTypes THEN "unknown_type"
                ELSE IF line.payload.shape = "nondict" THEN "payload_type_error"
                ELSE IF line.type \in {"session_meta", "turn_context"} THEN line.type
                ELSE IF line.type = "response_item"
                     THEN (IF p.type \in ResponseItemTypes THEN p.type
                           ELSE "response_item_other")
                ELSE IF p.type \in EventMsgTypes THEN p.type
                ELSE "event_msg_other"

\* one iteration of the loop over the file's lines (lines 363-590)
LineStep(L, line, max_chars) ==
    LET b == BranchOf(L, line)
        ts == parse_ts(line.timestamp)
        L1 == UpdateBounds(L, ts).v
        p == PayloadOrEmpty(line.payload)
    IN  CASE b = "blank" -> BlankBranch(L)
          [] b = "malformed" -> MalformedBranch(L)
          [] b = "non_object" -> NonObjectBranch(L)
          [] b \in {"ts_type_error", "payload_type_error"} -> Raise
          [] b = "session_meta" -> SessionMetaBranch(L1, ts, line.payload, max_chars)
          [] b = "turn_context" -> TurnContextBranch(L1, ts, line.payload, max_chars)
          [] b = "message" -> MessageBranch(L1, ts, p, max_chars)
          [] b = "function_call" -> FunctionCallBranch(L1, ts, p, max_chars)
          [] b = "function_call_output" -> FunctionCallOutputBranch(L1, ts, p, max_chars)
          [] b = "reasoning" -> ReasoningBranch(L1, ts, p, max_chars)
          [] b = "ghost_snapshot" -> GhostSnapshotBranch(L1, ts, p, max_chars)
          [] b = "user_message" -> UserMessageBranch(L1, ts, p, max_chars)
          [] b = "agent_message" -> AgentMessageBranch(L1, ts, p, max_chars)
          [] b = "agent_reasoning" -> AgentReasoningBranch(L1, ts, p, max_chars)
          [] b = "token_count" -> TokenCountBranch(L1, ts, p, max_chars)
          [] b = "event_msg_other" -> OtherEventMsgBranch(L1, ts, p, max_chars)
          [] b \in {"response_item_other", "unknown_type"} -> NoEventBranch(L1)

(***************************************************************************)
(* The return value (lines 592-619).                                       *)
(***************************************************************************)
\* str.lower() of one character (the ASCII letters)
Lower(c) ==
    CASE c = "A" -> "a" [] c = "B" -> "b" [] c = "C" -> "c" [] c = "D" -> "d"
      [] c = "E" -> "e" [] c = "F" -> "f" [] c = "G" -> "g" [] c = "H" -> "h"
      [] c = "I" -> "i" [] c = "J" -> "j" [] c = "K" -> "k" [] c = "L" -> "l"
      [] c = "M" -> "m" [] c = "N" -> "n" [] c = "O" -> "o" [] c = "P" -> "p"
      [] c = "Q" -> "q" [] c = "R" -> "r" [] c = "S" -> "s" [] c = "T" -> "t"
      [] c = "U" -> "u" [] c = "V" -> "v" [] c = "W" -> "w" [] c = "X" -> "x"
      [] c = "Y" -> "y" [] c = "Z" -> "z"
      [] OTHER -> c

LowerText(text) == [i \in 1..Len(text) |-> Lower(text[i])]

SKIP_SUBSTRINGS ==
    << <<"<", "e", "n", "v", "i", "r", "o", "n", "m", "e", "n", "t", "_", "c", "o", "n", "t", "e", "x", "t", ">">>,
       <<"a", "g", "e", "n", "t", "s", ".", "m", "d">>,
       <<"<", "i", "n", "s", "t", "r", "u", "c", "t", "i", "o", "n", "s", ">">>,
       <<"s", "k", "i", "l", "l", "s", " ", "a", "r", "e", " ", "d", "i", "s", "c", "o", "v", "e", "r", "e", "d">>,
       <<"t", "r", "i", "g", "g", "e", "r", " ", "r", "u", "l", "e", "s">>,
       <<"#", "#", " ", "s", "k", "i", "l", "l", "s">> >>

\* is_instruction_text(text)
is_instruction_text(text) ==
    IF text = <<>> THEN TRUE
    ELSE \E i \in 1..Len(SKIP_SUBSTRINGS) : Contains(LowerText(text), SKIP_SUBSTRINGS[i])

\* first_non_instruction(messages)
first_non_instruction(messages) ==
    LET kept == SelectSeq(messages, LAMBDA msg : msg # <<>> /\ ~is_instruction_text(msg))
    IN  IF kept = <<>> THEN <<>> ELSE kept[1]

\* collections.Counter(e[field] for e in events)
Counter(evs, field) ==
    [v \in {evs[i][field] : i \in 1..Len(evs)} |->
        Cardinality({i \in 1..Len(evs) : evs[i][field] = v})]

\* a sort key that puts the later of two events of equal epoch first
KeyLessLaterFirst(a, b) ==
    \/ a.epoch < b.epoch
    \/ a.epoch = b.epoch /\ a.index > b.index

\* the sort key (e["epoch"], e["index"]) of a precedes that of b
KeyLess(a, b) ==
    \/ a.epoch < b.epoch
    \/ a.epoch = b.epoch /\ a.index < b.index

\* sorted(events, key=lambda e: (e["epoch"], e["index"]))
SortEvents(evs) ==
    LET rank(i) == 1 + Cardinality({j \in 1..Len(evs) : KeyLess(evs[j], evs[i])})
    IN  [k \in 1..Len(evs) |-> evs[CHOOSE i \in 1..Len(evs) : rank(i) = k]]

\* os.path.basename(path) of the file parsed
FileName == <<"r", "o", "l", "l", "o", "u", "t", "-", "1", ".", "j", "s", "o", "n", "l">>

\* the dictionary parse_session returns
Result(L) ==
    [id |-> IF Truthy(L.meta.id) THEN L.meta.id.s ELSE FileName,
     cwd |-> L.meta.cwd,
     start_ts |-> L.first_ts,
     end_ts |-> L.last_ts,
     duration |-> format_duration(L.first_ts, L.last_ts),
     user_messages |-> L.user_messages,
     assistant_messages |-> L.assistant_messages,
     tool_counts |-> L.tool_counts,
     model |-> L.model,
     cli_version |-> L.cli_version,
     summary |-> summarize_text(first_non_instruction(L.user_messages), DefaultSummaryLen),
     events |-> SortEvents(L.events),
     counts_by_category |-> Counter(L.events, "category"),
     counts_by_kind |-> Counter(L.events, "kind"),
     counts_by_source |-> Counter(L.events, "source"),
     counts_by_event |-> Counter(L.events, "event_type")]

\* the locals before the first line (lines 319-328)
L0 ==
    [meta |-> PBase, tool_counts |-> [n \in {} |-> 0], user_messages |-> <<>>,
     assistant_messages |-> <<>>, first_ts |-> NoneTs, last_ts |-> NoneTs,
     model |-> JNull, cli_version |-> JNull, events |-> <<>>, index |-> 0]

\* parse_session over a whole file: the loop, then the return value
RECURSIVE ParseLines(_, _, _)
ParseLines(L, lines, max_chars) ==
    IF lines = <<>> THEN Ok(L)
    ELSE LET r == LineStep(L, Head(lines), max_chars)
         IN  IF r.ok THEN ParseLines(r.v, Tail(lines), max_chars) ELSE Raise

parse_session(lines, max_chars) ==
    LET r == ParseLines(L0, lines, max_chars)
    IN  IF r.ok THEN Ok(Result(r.v)) ELSE Raise

(***************************************************************************)
(* generate_digest (lines 658-783).  The digest is built as a list of      *)
(* lines and returned joined by "\n".                                      *)
(***************************************************************************)
\* sid[:8]
DigestIdLen == 8
\* user_prompts[:10]
PromptsListed == 10
\* [:300] of a listed prompt
PromptLen == 300
\* [:5] of the thinking blocks, and [:400] of each
ThinkingListed == 5
ThinkingLen == 400
\* [:100] of a command, commands[:15], files_modified[:15]
CommandLen == 100
CommandsListed == 15
FilesListed == 15
\* a path longer than 60 characters is shown as "..." and its last 57
PathLen == 60
PathTailLen == 57
\* error_events[:5], and [:200] of each summary
ErrorsListed == 5
ErrorLen == 200
\* [:500] of the last user request and of the last assistant response
LastLen == 500

UnknownText == <<"(", "u", "n", "k", "n", "o", "w", "n", ")">>
TitleLit == <<"#", " ", "S", "e", "s", "s", "i", "o", "n", " ", "D", "i", "g", "e", "s", "t", ":", " ">>
ProjectLit == <<"*", "*", "P", "r", "o", "j", "e", "c", "t", ":", "*", "*", " ">>
DurationLit == <<"*", "*", "D", "u", "r", "a", "t", "i", "o", "n", ":", "*", "*", " ">>
ModelLit == <<"*", "*", "M", "o", "d", "e", "l", ":", "*", "*", " ">>
PromptsHead == <<"#", "#", " ", "U", "s", "e", "r", " ", "P", "r", "o", "m", "p", "t", "s", " ", "(", "c", "h", "r", "o", "n", "o", "l", "o", "g", "i", "c", "a", "l", ")">>
ThinkingHead == <<"#", "#", " ", "K", "e", "y", " ", "T", "h", "i", "n", "k", "i", "n", "g", "/", "D", "e", "c", "i", "s", "i", "o", "n", "s">>
CommandsHead == <<"#", "#", " ", "C", "o", "m", "m", "a", "n", "d", "s", " ", "R", "u", "n">>
FilesHead == <<"#", "#", " ", "F", "i", "l", "e", "s", " ", "M", "o", "d", "i", "f", "i", "e", "d">>
ErrorsHead == <<"#", "#", " ", "E", "r", "r", "o", "r", "s", " ", "E", "n", "c", "o", "u", "n", "t", "e", "r", "e", "d">>
LeftOffHead == <<"#", "#", " ", "W", "h", "e", "r", "e", " ", "I", "t", " ", "L", "e", "f", "t", " ", "O", "f", "f">>
LastRequestLit == <<"*", "*", "L", "a", "s", "t", " ", "u", "s", "e", "r", " ", "r", "e", "q", "u", "e", "s", "t", ":", "*", "*">>
LastResponseLit == <<"*", "*", "L", "a", "s", "t", " ", "a", "s", "s", "i", "s", "t", "a", "n", "t", " ", "r", "e", "s", "p", "o", "n", "s", "e", ":", "*", "*">>
MoreHead == <<" ", " ", " ", ".", ".", ".", " ", "a", "n", "d", " ">>
MoreTail == <<" ", "m", "o", "r", "e", " ", "p", "r", "o", "m", "p", "t", "s">>
QuoteLit == <<">", " ">>

\* f"{minutes:.1f}m" or "?": session["duration"]; a tick of the model's
\* clock is one minute
DurationText(duration) ==
    IF ~duration.known THEN <<"?">>
    ELSE IntText(duration.delta) \o <<".", "0", "m">>

\* e.get("details") or e.get("summary") or ""
EventText(e) == IF e.details # <<>> THEN e.details ELSE e.summary

\* [e for e in events if e["event_type"] == kind]
OfKind(evs, kind) == SelectSeq(evs, LAMBDA e : e.event_type = kind)

\* re.sub(r"\s+", " ", text.strip())[:n], with "..." added at length n
Cleaned(text, n) ==
    LET cut == Take(CollapseWs(Strip(text)), n)
    IN  IF Len(cut) = n THEN cut \o Dots ELSE cut

\* a header that also reports how many user messages the session holds
DigestHeaderCounted(s) ==
    <<TitleLit \o (IF s.id # <<>> THEN Take(s.id, DigestIdLen) ELSE UnknownText),
      <<>>,
      ProjectLit \o (IF Truthy(s.cwd) THEN s.cwd.s ELSE UnknownText),
      DurationLit \o DurationText(s.duration),
      IntText(Len(s.user_messages))>>
    \o (IF Truthy(s.model) THEN <<ModelLit \o s.model.s>> ELSE <<>>)
    \o << <<>> >>

\* the header: title, project, duration and model (lines 662-673)
DigestHeader(s) ==
    <<TitleLit \o (IF s.id # <<>> THEN Take(s.id, DigestIdLen) ELSE UnknownText),
      <<>>,
      ProjectLit \o (IF Truthy(s.cwd) THEN s.cwd.s ELSE UnknownText),
      DurationLit \o DurationText(s.duration)>>
    \o (IF Truthy(s.model) THEN <<ModelLit \o s.model.s>> ELSE <<>>)
    \o << <<>> >>

\* user_prompts: the texts of the user events that are no instruction text
\* (lines 676-681)
UserPrompts(evs) ==
    LET texts == [i \in 1..Len(OfKind(evs, EVENT_USER)) |->
                     EventText(OfKind(evs, EVENT_USER)[i])]
    IN  SelectSeq(texts, LAMBDA text : text # <<>> /\ ~is_instruction_text(text))

\* the prompts as listed: number, quoted cleaned text (lines 686-691)
ListedPrompts(prompts) ==
    [i \in 1..Min(Len(prompts), PromptsListed) |->
        IntText(i) \o <<".", " ", "\"">> \o Cleaned(prompts[i], PromptLen) \o <<"\"">>]

\* the "User Prompts" section (lines 683-694)
PromptSection(prompts) ==
    IF prompts = <<>> THEN <<>>
    ELSE <<PromptsHead, <<>> >> \o ListedPrompts(prompts)
         \o (IF Len(prompts) > PromptsListed
             THEN <<MoreHead \o IntText(Len(prompts) - PromptsListed) \o MoreTail>>
             ELSE <<>>)
         \o << <<>> >>

\* sorted(thinking_events, key=len(details), reverse=True)[:5]: the sort is
\* stable, so blocks of equal length keep their order
Substantive(blocks) ==
    LET rank(i) == 1 + Cardinality({j \in 1..Len(blocks) :
                          \/ Len(blocks[j].details) > Len(blocks[i].details)
                          \/ /\ Len(blocks[j].details) = Len(blocks[i].details)
                             /\ j < i})
    IN  [k \in 1..Min(Len(blocks), ThinkingListed) |->
            blocks[CHOOSE i \in 1..Len(blocks) : rank(i) = k]]

\* the "Key Thinking/Decisions" section (lines 697-710)
ThinkingSection(evs) ==
    LET blocks == Substantive(OfKind(evs, EVENT_THINKING))
        texts == [k \in 1..Len(blocks) |-> Cleaned(EventText(blocks[k]), ThinkingLen)]
        shown == SelectSeq(texts, LAMBDA text : text # <<>>)
    IN  IF OfKind(evs, EVENT_THINKING) = <<>> THEN <<>>
        ELSE <<ThinkingHead, <<>> >>
             \o [k \in 1..Len(shown) |-> <<"-", " ">> \o shown[k]]
             \o << <<>> >>

CommandKey == <<"c", "o", "m", "m", "a", "n", "d", ":">>
FilePathKey == <<"f", "i", "l", "e", "_", "p", "a", "t", "h", ":">>
PathKey == <<"p", "a", "t", "h", ":">>
ToolLit == <<"t", "o", "o", "l">>

\* does key occur at position i of the text, letter case ignored
MatchAtLower(text, key, i) ==
    /\ i + Len(key) - 1 <= Len(text)
    /\ \A j \in 1..Len(key) : Lower(text[i + j - 1]) = key[j]

\* where the group of re.search(rf"{key}\s*(.+?)(?:\n|$)", details,
\* re.IGNORECASE) starts when the key matches at position i, or 0: \s* takes
\* the whole run of whitespace and gives back until a character that is no
\* newline is left for the group
GroupStart(details, key, i) ==
    LET from == i + Len(key)
        run == {k \in from..(Len(details) + 1) :
                   \A j \in from..(k - 1) : details[j] \in Whitespace}
        starts == {k \in run : k <= Len(details) /\ details[k] # "\n"}
    IN  IF ~MatchAtLower(details, key, i) \/ starts = {} THEN 0
        ELSE CHOOSE k \in starts : \A m \in starts : m <= k

\* match.group(1) of the leftmost match, or found = FALSE
KeyMatch(details, key) ==
    LET hits == {i \in 1..Len(details) : GroupStart(details, key, i) > 0}
        i == CHOOSE h \in hits : \A m \in hits : h <= m
        k == GroupStart(details, key, i)
        stop == IF \E m \in (k + 1)..Len(details) : details[m] = "\n"
                THEN CHOOSE m \in (k + 1)..Len(details) :
                         /\ details[m] = "\n"
                         /\ \A j \in (k + 1)..(m - 1) : details[j] # "\n"
                ELSE Len(details) + 1
    IN  IF hits = {} THEN [found |-> FALSE, group |-> <<>>]
        ELSE [found |-> TRUE, group |-> SubSeq(details, k, stop - 1)]

\* appending each item unless it is empty or already in the list
Distinct(items) ==
    LET kept == SelectSeq([i \in 1..Len(items) |-> i], LAMBDA i :
                    /\ items[i] # <<>>
                    /\ \A j \in 1..(i - 1) : items[j] # items[i])
    IN  [k \in 1..Len(kept) |-> items[kept[k]]]

\* match.group(1).strip() of one key in each tool event's details, empty
\* where the key does not match
Found(evs, key) ==
    [i \in 1..Len(evs) |->
        IF KeyMatch(evs[i].details, key).found
        THEN Strip(KeyMatch(evs[i].details, key).group)
        ELSE <<>>]

\* commands (lines 713-724)
Commands(evs) ==
    LET cmds == Found(OfKind(evs, EVENT_TOOL_USE), CommandKey)
    IN  Distinct([i \in 1..Len(cmds) |-> Take(cmds[i], CommandLen)])

\* files_modified (lines 725-731): for each tool event the file_path match,
\* then the path match
FilesModified(evs) ==
    LET byFilePath == Found(OfKind(evs, EVENT_TOOL_USE), FilePathKey)
        byPath == Found(OfKind(evs, EVENT_TOOL_USE), PathKey)
    IN  Distinct([n \in 1..(2 * Len(byPath)) |->
                     IF n % 2 = 1 THEN byFilePath[(n + 1) \div 2] ELSE byPath[n \div 2]])

\* the character U+0060 around a listed command, which a TLA+ string cannot hold
Backtick == "backtick"

\* the "Commands Run" section (lines 733-738)
CommandSection(commands) ==
    IF commands = <<>> THEN <<>>
    ELSE <<CommandsHead, <<>> >>
         \o [k \in 1..Min(Len(commands), CommandsListed) |->
                <<"-", " ", Backtick>> \o commands[k] \o <<Backtick>>]
         \o << <<>> >>

\* the "Files Modified" section (lines 740-748)
FileSection(files) ==
    IF files = <<>> THEN <<>>
    ELSE <<FilesHead, <<>> >>
         \o [k \in 1..Min(Len(files), FilesListed) |->
                <<"-", " ">> \o (IF Len(files[k]) > PathLen
                                 THEN Dots \o Drop(files[k], Len(files[k]) - PathTailLen)
                                 ELSE files[k])]
         \o << <<>> >>

\* the "Errors Encountered" section (lines 751-760)
ErrorSection(evs) ==
    LET errors == SelectSeq(evs, LAMBDA e : e.event_type = EVENT_POST_TOOL /\ e.error)
    IN  IF errors = <<>> THEN <<>>
        ELSE <<ErrorsHead, <<>> >>
             \o [k \in 1..Min(Len(errors), ErrorsListed) |->
                    <<"-", " ", "*", "*">>
                    \o (IF errors[k].name # "" THEN Chars(errors[k].name) ELSE ToolLit)
                    \o <<"*", "*", ":", " ">>
                    \o Take(CollapseWs(Strip(errors[k].summary)), ErrorLen)]
             \o << <<>> >>

\* text.replace("\n", "\n> "): character i of text lands at position
\* First(text, i) of the result, a newline followed by "> "
First(text, i) == i + 2 * Cardinality({j \in 1..(i - 1) : text[j] = "\n"})

QuoteNewlines(text) ==
    [n \in 1..(First(text, Len(text) + 1) - 1) |->
        LET i == CHOOSE k \in 1..Len(text) :
                     First(text, k) <= n /\ n < First(text, k + 1)
        IN  IF n = First(text, i) THEN text[i]
            ELSE IF n = First(text, i) + 1 THEN ">" ELSE " "]

\* the last user request (lines 767-771)
LastRequest(prompts) ==
    IF prompts = <<>> THEN <<>>
    ELSE <<LastRequestLit, QuoteLit \o Take(prompts[Len(prompts)], LastLen), <<>> >>

\* the last assistant response (lines 774-781)
LastResponse(evs) ==
    LET texts == OfKind(evs, EVENT_TEXT)
    IN  IF texts = <<>> THEN <<>>
        ELSE <<LastResponseLit,
               QuoteLit \o QuoteNewlines(Take(EventText(texts[Len(texts)]), LastLen)),
               <<>> >>

\* generate_digest(session)
generate_digest(s) ==
    JoinLines(DigestHeader(s)
              \o PromptSection(UserPrompts(s.events))
              \o ThinkingSection(s.events)
              \o CommandSection(Commands(s.events))
              \o FileSection(FilesModified(s.events))
              \o ErrorSection(s.events)
              \o <<LeftOffHead, <<>> >>
              \o LastRequest(UserPrompts(s.events))
              \o LastResponse(s.events))

(***************************************************************************)
(* main (lines 1444-1541) over a sessions directory.  A file of the        *)
(* directory is its path and what open() and reading give: its lines, or   *)
(* an OSError or UnicodeDecodeError when it cannot be opened or decoded.   *)
(***************************************************************************)
\* --limit, default 20
ListLimit == 20

\* os.path.basename(path)
Basename(path) ==
    LET slashes == {i \in 1..Len(path) : path[i] = "/"}
    IN  IF slashes = {} THEN path
        ELSE Drop(path, CHOOSE i \in slashes : \A j \in slashes : j <= i)

\* str.startswith
StartsWith(text, prefix) ==
    /\ Len(prefix) <= Len(text)
    /\ SubSeq(text, 1, Len(prefix)) = prefix

\* parse_session(path, ...) of one file of the directory: the returned
\* dictionary has the path, and the file's name as id when no session_meta
\* record gave one; open() and the line iterator are inside no try
parse_file(f, max_chars) ==
    LET r == ParseLines(L0, f.lines, max_chars)
    IN  IF ~f.readable \/ ~r.ok THEN Raise
        ELSE Ok([path |-> f.path,
                 session |-> [Result(r.v) EXCEPT
                                !.id = IF Truthy(r.v.meta.id) THEN @
                                       ELSE Basename(f.path)]])

\* dt.datetime.min, a naive datetime; KeyBefore puts it below every other
NaiveMin == NoneTs

\* s["start_ts"] or dt.datetime.min
SortKey(entry) ==
    IF entry.session.start_ts.some THEN entry.session.start_ts
    ELSE NaiveMin

\* key a < key b: datetime.min is below every other naive datetime
KeyBefore(a, b) ==
    \/ ~a.some /\ b.some
    \/ a.some /\ b.some /\ Instant(a) < Instant(b)

\* sorted(sessions, key=lambda s: s["start_ts"] or dt.datetime.min,
\* reverse=True): comparing a naive key with an aware one raises TypeError,
\* and a sort of two or more keys of both kinds compares such a pair; the
\* sort is stable
SortedByStart(entries) ==
    LET rank(i) == 1 + Cardinality({j \in 1..Len(entries) :
                          \/ KeyBefore(SortKey(entries[i]), SortKey(entries[j]))
                          \/ /\ ~KeyBefore(SortKey(entries[j]), SortKey(entries[i]))
                             /\ j < i})
    IN  IF \E i, j \in 1..Len(entries) :
               SortKey(entries[i]).aware # SortKey(entries[j]).aware
        THEN Raise
        ELSE Ok([k \in 1..Len(entries) |->
                    entries[CHOOSE i \in 1..Len(entries) : rank(i) = k]])

\* a select_session that settles for the first of several matches
select_sessionFirstMatch(entries, needle) ==
    LET matches == SelectSeq(entries, LAMBDA e :
                       \/ StartsWith(e.session.id, needle)
                       \/ Contains(e.path, needle))
    IN  IF needle = <<>> THEN [session |-> <<>>, matches |-> <<>>]
        ELSE [session |-> IF Len(matches) >= 1 THEN <<matches[1]>> ELSE <<>>,
              matches |-> matches]

\* select_session(sessions, needle): the session and the matches
select_session(entries, needle) ==
    LET matches == SelectSeq(entries, LAMBDA e :
                       \/ StartsWith(e.session.id, needle)
                       \/ Contains(e.path, needle))
    IN  IF needle = <<>> THEN [session |-> <<>>, matches |-> <<>>]
        ELSE [session |-> IF Len(matches) = 1 THEN <<matches[1]>> ELSE <<>>,
              matches |-> matches]

(***************************************************************************)
(* The input lines the model draws from.                                   *)
(***************************************************************************)
Obj(type, ts, payload) ==
    [form |-> "object", type |-> type, timestamp |-> ts, payload |-> payload]

\* an empty or whitespace-only line
BlankLine == [form |-> "blank", type |-> "", timestamp |-> RawTs("absent", 0, 0),
              payload |-> PFalsy]

\* a line json.loads rejects
MalformedLine == [form |-> "malformed", type |-> "", timestamp |-> RawTs("absent", 0, 0),
                  payload |-> PFalsy]

\* valid JSON that is no object: a list, number, string, true, false or null
ValueLine == [form |-> "value", type |-> "", timestamp |-> RawTs("absent", 0, 0),
              payload |-> PFalsy]

\* an instant beyond FloatExact whose successor rounds to the same float
FarInstant == 2 * FloatExact + 4

\* the timestamp most content lines carry
Ts0 == RawTs("zulu", 2, 0)

TsInputs ==
    {RawTs("absent", 0, 0), RawTs("nonstr", 0, 0), RawTs("bad", 0, 0),
     RawTs("zulu", 0 - 1, 0), RawTs("offset", 3, 2), RawTs("naive", 2, 0),
     RawTs("zulu", FarInstant, 0), RawTs("zulu", FarInstant + 1, 0)}

\* event_msg records without payload, one per timestamp
TimestampLines == {Obj("event_msg", ts, PFalsy) : ts \in TsInputs}

Hi == <<"h", "i">>
Spaced == <<" ", "a", " ", " ", "b", "\n", "c", " ">>
\* one character more than an event summary may hold
LongText == Rep("x", EventSummaryLen + 1)
\* one character more than an opaque detail may hold
LongerText == Rep("y", OpaqueDetailLen + 1)
Boilerplate == <<"#", "#", " ", "S", "k", "i", "l", "l", "s">>

MetaLines ==
    {Obj("session_meta", Ts0, [PBase EXCEPT !.id = JStr(<<"s", "e", "s", "s", "i", "o", "n", "-", "1">>),
                                             !.cwd = JStr(<<"/", "w">>),
                                             !.cli_version = JStr(<<"0", ".", "1">>)]),
     Obj("session_meta", Ts0, [PBase EXCEPT !.cwd = JStr(<<"/", "a", " ", " ", "b">>)]),
     Obj("session_meta", Ts0, PNonDict),
     Obj("turn_context", Ts0, [PBase EXCEPT !.cwd = JStr(<<"/", "w">>),
                                             !.model = JStr(<<"g", "p", "t">>)])}

Message(role, content) ==
    Obj("response_item", Ts0, [PBase EXCEPT !.type = "message", !.role = role,
                                             !.content = content])

MessageLines ==
    {Message("user", JStr(Hi)),
     Message("user", JStr(Boilerplate)),
     Message("user", JList(<<DictItem("input_text", JStr(Hi), JAbsent),
                             DictItem("image", JAbsent, JAbsent),
                             DictItem("input_text", JStr(<<"!">>), JAbsent)>>)),
     Message("assistant", JStr(LongText)),
     Message("system", JStr(Hi)),
     Message("", JNull),
     Message("user", JList(<<DictItem("input_text", JNum(<<"5">>), JAbsent)>>))}

Call(name, call_id, arguments) ==
    Obj("response_item", Ts0, [PBase EXCEPT !.type = "function_call", !.name = name,
                                             !.call_id = call_id, !.arguments = arguments])

CallOutput(call_id, output) ==
    Obj("response_item", Ts0, [PBase EXCEPT !.type = "function_call_output",
                                             !.call_id = call_id, !.output = output])

ToolLines ==
    {Call("shell", "c1", JJsonStr(<<Entry("command", <<"l", "s">>), Entry("workdir", <<"/", "w">>)>>)),
     Call("shell", "c2", JJsonStr(<<Entry("command", <<"a", " ", " ", "b">>)>>)),
     Call("shell", "c2", JJsonStr(<<Entry("path", LongText)>>)),
     Call("shell", "c2", JJsonStr(<<Entry("note", Spaced)>>)),
     Call("", "c2", JStr(<<"{", "l", "s">>)),
     Call("shell", "c2", JList(<<StrItem(<<"l", "s">>), StrItem(<<"-", "l">>)>>)),
     CallOutput("c1", JStr(ExitCodeLit \o <<" ", "0", "\n">> \o OutputLit \o <<"\n", "o", "k">>)),
     CallOutput("c1", JStr(ExitCodeLit \o <<" ", "1", "\n">> \o OutputLit \o <<"\n">>)),
     CallOutput("c2", JStr(ExitCodeLit \o <<"2", "\n">> \o LongText)),
     CallOutput("c2", JStr(ExitCodeLit \o <<" ", "0", "0">>)),
     CallOutput("c2", JStr(ExitCodeLit \o <<" ", "x">>)),
     CallOutput("", JAbsent),
     CallOutput("c2", JDict(<<Entry("note", Hi)>>))}

Reasoning(summary, content, encrypted_content) ==
    Obj("response_item", Ts0, [PBase EXCEPT !.type = "reasoning", !.summary = summary,
                                             !.content = content,
                                             !.encrypted_content = encrypted_content])

ReasoningLines ==
    {Reasoning(JList(<<DictItem("summary_text", JAbsent, JStr(Hi)), StrItem(Spaced)>>),
               JNull, JStr(<<"g", "A">>)),
     Reasoning(JAbsent, JStr(LongText), JAbsent),
     Reasoning(JStr(Hi), JAbsent, JAbsent),
     Reasoning(JAbsent, JList(<<StrItem(Hi)>>), JAbsent),
     Obj("response_item", Ts0, [PBase EXCEPT !.type = "ghost_snapshot",
                                             !.extra = <<Entry("note", Hi)>>]),
     Obj("response_item", Ts0, [PBase EXCEPT !.type = "ghost_snapshot",
                                             !.extra = <<Entry("note", LongerText)>>]),
     Obj("response_item", Ts0, [PBase EXCEPT !.type = "image"])}

EventMsg(type, message, text) ==
    Obj("event_msg", Ts0, [PBase EXCEPT !.type = type, !.message = message, !.text = text])

EventMsgLines ==
    {EventMsg("user_message", JStr(Hi), JAbsent),
     EventMsg("user_message", JNull, JAbsent),
     EventMsg("agent_message", JStr(Spaced), JAbsent),
     EventMsg("agent_reasoning", JAbsent, JStr(Hi)),
     EventMsg("agent_reasoning", JAbsent, JNull),
     Obj("event_msg", Ts0, [PBase EXCEPT !.type = "token_count",
                                          !.total_tokens = JNum(<<"1", "2">>),
                                          !.last_tokens = JNum(<<"5">>)]),
     Obj("event_msg", Ts0, [PBase EXCEPT !.type = "task_started",
                                          !.extra = <<Entry("note", LongerText)>>])}

OddLines ==
    {BlankLine, MalformedLine, ValueLine, Obj("summary", Ts0, PFalsy)}

\* a path of PathLen + 1 characters with the given first character
LongPath(c) == <<c, "/">> \o Rep("d", PathLen - 5) \o <<"/", "f", ".", "p", "y">>

\* the records the digest draws on
\* the text of a readiness probe
Warmup == <<"w", "a", "r", "m", "u", "p">>

DigestLines ==
    {Obj("session_meta", Ts0, [PBase EXCEPT !.id = JStr(<<"s", "e", "s", "s", "i", "o", "n", "-", "1">>),
                                             !.cwd = JStr(<<"/", "w">>)]),
     Obj("turn_context", Ts0, [PBase EXCEPT !.model = JStr(<<"g", "p", "t">>)]),
     Message("user", JStr(Hi)),
     Message("user", JStr(Boilerplate)),
     Message("user", JStr(<<"t", "r", "i", "g", "g", "e", "r", " ", " ", "r", "u", "l", "e", "s">>)),
     Message("assistant", JStr(<<"o", "k", "\n", "b", "y", "e">>)),
     Message("system", JStr(Hi)),
     EventMsg("user_message", JStr(<<>>), JAbsent),
     Call("shell", "c1", JJsonStr(<<Entry("command", <<"l", "s">>), Entry("workdir", <<"/", "w">>)>>)),
     Call("shell", "c2", JJsonStr(<<Entry("file_path", <<"a", ".", "p", "y">>)>>)),
     Call("shell", "c2", JJsonStr(<<Entry("path", LongPath("a"))>>)),
     Call("shell", "c2", JJsonStr(<<Entry("path", LongPath("b"))>>)),
     CallOutput("c1", JStr(ExitCodeLit \o <<" ", "1", "\n">> \o OutputLit \o <<"\n">>)),
     Reasoning(JAbsent, JStr(Hi), JAbsent),
     Message("user", JStr(Warmup)),
     EventMsg("user_message", JStr(Warmup), JAbsent),
     Message("user", JStr(<<" ", " ">>)),
     Message("user", JStr(LongText))}

InputLines ==
    TimestampLines \cup MetaLines \cup MessageLines \cup ToolLines
        \cup ReasoningLines \cup EventMsgLines \cup OddLines

(***************************************************************************)
(* State.                                                                  *)
(***************************************************************************)
(***************************************************************************)
(* The directories and command lines main is run on.                       *)
(***************************************************************************)
\* the number of rollout files in the sessions directory
MaxFiles == 2

RolloutPath(n) ==
    <<"s", "/", "r", "o", "l", "l", "o", "u", "t", "-", n, ".", "j", "s", "o", "n", "l">>

SessionId(n) == <<"s", "e", "s", "s", "i", "o", "n", "-", n>>

RolloutFile(n, lines) == [path |-> RolloutPath(n), readable |-> TRUE, lines |-> lines]

\* a file open() or the decoder refuses: no permission, a dangling link,
\* bytes that are not UTF-8
UnreadableFile(n) == [path |-> RolloutPath(n), readable |-> FALSE, lines |-> <<>>]

\* a session_meta record with an id
MetaLine(ts, n) == Obj("session_meta", ts, [PBase EXCEPT !.id = JStr(SessionId(n))])

MainFiles ==
    {RolloutFile("1", <<MetaLine(Ts0, "1"), Message("user", JStr(Hi))>>),
     RolloutFile("2", <<MetaLine(RawTs("offset", 3, 2), "2")>>),
     RolloutFile("3", <<MetaLine(RawTs("absent", 0, 0), "3")>>),
     RolloutFile("4", <<Obj("response_item", RawTs("naive", 2, 0),
                            [PBase EXCEPT !.type = "message", !.role = "user",
                                          !.content = JStr(Hi)])>>),
     UnreadableFile("5")}

\* the files os.walk yields, in the order it yields them
Directories ==
    UNION {{d \in [1..n -> MainFiles] : \A i, j \in 1..n : d[i] = d[j] => i = j} :
           n \in 0..MaxFiles}

\* no session id, a prefix of the ids session-1, session-2 and session-3,
\* and a part of the path of the file whose name is its id
Needles ==
    {<<>>, <<"s", "e", "s", "s", "i", "o", "n">>,
     <<"r", "o", "l", "l", "o", "u", "t", "-", "4">>}

\* the parsed command line: --list, --latest, session_id, --open, --digest
ArgSets ==
    [list : BOOLEAN, latest : BOOLEAN, session_id : Needles,
     open : BOOLEAN, digest : BOOLEAN]

VARIABLES
    file,               \* the lines of the file read so far
    pc,                 \* "reading", "done" (returned) or "raised" (exception)
    max_chars,          \* the max_chars argument
    meta, tool_counts, user_messages, assistant_messages,
    first_ts, last_ts, model, cli_version, events, index,   \* the locals
    warnings,           \* number of warnings reported for the file
    session,            \* the returned dictionary, once pc = "done"
    digest,             \* the text generate_digest returned, once pc = "digested"
    run                 \* main: where it is, its arguments, sessions and outcome

locals == <<meta, tool_counts, user_messages, assistant_messages,
            first_ts, last_ts, model, cli_version, events, index>>

vars == <<file, pc, max_chars, locals, warnings, session, digest, run>>

\* the locals as one record
Locals ==
    [meta |-> meta, tool_counts |-> tool_counts, user_messages |-> user_messages,
     assistant_messages |-> assistant_messages, first_ts |-> first_ts,
     last_ts |-> last_ts, model |-> model, cli_version |-> cli_version,
     events |-> events, index |-> index]

Commit(L) ==
    /\ meta' = L.meta
    /\ tool_counts' = L.tool_counts
    /\ user_messages' = L.user_messages
    /\ assistant_messages' = L.assistant_messages
    /\ first_ts' = L.first_ts
    /\ last_ts' = L.last_ts
    /\ model' = L.model
    /\ cli_version' = L.cli_version
    /\ events' = L.events
    /\ index' = L.index

\* main before it is run
Idle ==
    [at |-> "idle", isdir |-> FALSE, dir |-> <<>>,
     args |-> [list |-> FALSE, latest |-> FALSE, session_id |-> <<>>,
               open |-> FALSE, digest |-> FALSE],
     todo |-> <<>>, sessions |-> <<>>, chosen |-> <<>>,
     status |-> 0, raised |-> "", out |-> "", listing |-> <<>>]

Init ==
    /\ file = <<>>
    /\ pc = "reading"
    /\ max_chars \in {0, MaxCharsN}
    /\ meta = L0.meta
    /\ tool_counts = L0.tool_counts
    /\ user_messages = L0.user_messages
    /\ assistant_messages = L0.assistant_messages
    /\ first_ts = L0.first_ts
    /\ last_ts = L0.last_ts
    /\ model = L0.model
    /\ cli_version = L0.cli_version
    /\ events = L0.events
    /\ index = L0.index
    /\ warnings = 0
    /\ session = <<>>
    /\ digest = <<>>
    /\ run = Idle

\* the loop reads one more line; r is what the body made of it
Step(line, r) ==
    /\ file' = Append(file, line)
    /\ IF r.ok THEN pc' = "reading" /\ Commit(r.v)
       ELSE pc' = "raised" /\ UNCHANGED locals
    /\ UNCHANGED <<max_chars, warnings, session, digest, run>>

\* ts = parse_ts(obj.get("timestamp")), line 373
Ts(line) == parse_ts(line.timestamp)

\* the locals after lines 374-377
Bounded(line) == UpdateBounds(Locals, Ts(line)).v

\* payload = obj.get("payload") or {}, lines 422 and 516
Payload(line) == PayloadOrEmpty(line.payload)

\* One action per branch of the loop body: line, the next line of the file,
\* is one that takes that branch.

\* lines 364-366
ReadBlank(line) ==
    /\ pc = "reading"
    /\ Len(file) < MaxLines
    /\ BranchOf(Locals, line) = "blank"
    /\ Step(line, BlankBranch(Locals))

\* lines 367-370
ReadMalformed(line) ==
    /\ pc = "reading"
    /\ Len(file) < MaxLines
    /\ BranchOf(Locals, line) = "malformed"
    /\ Step(line, MalformedBranch(Locals))

\* line 372
ReadNonObject(line) ==
    /\ pc = "reading"
    /\ Len(file) < MaxLines
    /\ BranchOf(Locals, line) = "non_object"
    /\ Step(line, NonObjectBranch(Locals))

\* lines 374-377
ReadTimestampTypeError(line) ==
    /\ pc = "reading"
    /\ Len(file) < MaxLines
    /\ BranchOf(Locals, line) = "ts_type_error"
    /\ Step(line, UpdateBounds(Locals, Ts(line)))

\* lines 422, 516
ReadPayloadTypeError(line) ==
    /\ pc = "reading"
    /\ Len(file) < MaxLines
    /\ BranchOf(Locals, line) = "payload_type_error"
    /\ Step(line, Raise)

\* lines 386-590
ReadUnknownType(line) ==
    /\ pc = "reading"
    /\ Len(file) < MaxLines
    /\ BranchOf(Locals, line) = "unknown_type"
    /\ Step(line, NoEventBranch(Bounded(line)))

\* lines 387-402
ReadSessionMeta(line) ==
    /\ pc = "reading"
    /\ Len(file) < MaxLines
    /\ BranchOf(Locals, line) = "session_meta"
    /\ Step(line, SessionMetaBranch(Bounded(line), Ts(line), line.payload, max_chars))

\* lines 404-419
ReadTurnContext(line) ==
    /\ pc = "reading"
    /\ Len(file) < MaxLines
    /\ BranchOf(Locals, line) = "turn_context"
    /\ Step(line, TurnContextBranch(Bounded(line), Ts(line), line.payload, max_chars))

\* lines 424-450
ReadMessage(line) ==
    /\ pc = "reading"
    /\ Len(file) < MaxLines
    /\ BranchOf(Locals, line) = "message"
    /\ Step(line, MessageBranch(Bounded(line), Ts(line), Payload(line), max_chars))

\* lines 451-469
ReadFunctionCall(line) ==
    /\ pc = "reading"
    /\ Len(file) < MaxLines
    /\ BranchOf(Locals, line) = "function_call"
    /\ Step(line, FunctionCallBranch(Bounded(line), Ts(line), Payload(line), max_chars))

\* lines 470-486
ReadFunctionCallOutput(line) ==
    /\ pc = "reading"
    /\ Len(file) < MaxLines
    /\ BranchOf(Locals, line) = "function_call_output"
    /\ Step(line, FunctionCallOutputBranch(Bounded(line), Ts(line), Payload(line), max_chars))

\* lines 487-500
ReadReasoning(line) ==
    /\ pc = "reading"
    /\ Len(file) < MaxLines
    /\ BranchOf(Locals, line) = "reasoning"
    /\ Step(line, ReasoningBranch(Bounded(line), Ts(line), Payload(line), max_chars))

\* lines 501-512
ReadGhostSnapshot(line) ==
    /\ pc = "reading"
    /\ Len(file) < MaxLines
    /\ BranchOf(Locals, line) = "ghost_snapshot"
    /\ Step(line, GhostSnapshotBranch(Bounded(line), Ts(line), Payload(line), max_chars))

\* lines 421-513
ReadResponseItemOther(line) ==
    /\ pc = "reading"
    /\ Len(file) < MaxLines
    /\ BranchOf(Locals, line) = "response_item_other"
    /\ Step(line, NoEventBranch(Bounded(line)))

\* lines 518-533
ReadUserMessage(line) ==
    /\ pc = "reading"
    /\ Len(file) < MaxLines
    /\ BranchOf(Locals, line) = "user_message"
    /\ Step(line, UserMessageBranch(Bounded(line), Ts(line), Payload(line), max_chars))

\* lines 534-549
ReadAgentMessage(line) ==
    /\ pc = "reading"
    /\ Len(file) < MaxLines
    /\ BranchOf(Locals, line) = "agent_message"
    /\ Step(line, AgentMessageBranch(Bounded(line), Ts(line), Payload(line), max_chars))

\* lines 550-563
ReadAgentReasoning(line) ==
    /\ pc = "reading"
    /\ Len(file) < MaxLines
    /\ BranchOf(Locals, line) = "agent_reasoning"
    /\ Step(line, AgentReasoningBranch(Bounded(line), Ts(line), Payload(line), max_chars))

\* lines 564-577
ReadTokenCount(line) ==
    /\ pc = "reading"
    /\ Len(file) < MaxLines
    /\ BranchOf(Locals, line) = "token_count"
    /\ Step(line, TokenCountBranch(Bounded(line), Ts(line), Payload(line), max_chars))

\* lines 578-589
ReadEventMsgOther(line) ==
    /\ pc = "reading"
    /\ Len(file) < MaxLines
    /\ BranchOf(Locals, line) = "event_msg_other"
    /\ Step(line, OtherEventMsgBranch(Bounded(line), Ts(line), Payload(line), max_chars))

\* end of file: lines 592-619
Return ==
    /\ pc = "reading"
    /\ pc' = "done"
    /\ session' = Result(Locals)
    /\ UNCHANGED <<file, max_chars, locals, warnings, digest, run>>

Next ==
    \/ \E line \in InputLines :
          \/ ReadBlank(line)
          \/ ReadMalformed(line)
          \/ ReadNonObject(line)
          \/ ReadTimestampTypeError(line)
          \/ ReadPayloadTypeError(line)
          \/ ReadUnknownType(line)
          \/ ReadSessionMeta(line)
          \/ ReadTurnContext(line)
          \/ ReadMessage(line)
          \/ ReadFunctionCall(line)
          \/ ReadFunctionCallOutput(line)
          \/ ReadReasoning(line)
          \/ ReadGhostSnapshot(line)
          \/ ReadResponseItemOther(line)
          \/ ReadUserMessage(line)
          \/ ReadAgentMessage(line)
          \/ ReadAgentReasoning(line)
          \/ ReadTokenCount(line)
          \/ ReadEventMsgOther(line)
    \/ Return

Spec == Init /\ [][Next]_vars

\* main with --digest (lines 1524-1529): the digest of the parsed session
Digest ==
    /\ pc = "done"
    /\ pc' = "digested"
    /\ digest' = generate_digest(session)
    /\ UNCHANGED <<file, max_chars, locals, warnings, session, run>>

\* a rollout file of the records the digest draws on is parsed, then digested
DigestNext ==
    \/ \E line \in DigestLines :
          \/ ReadSessionMeta(line)
          \/ ReadTurnContext(line)
          \/ ReadMessage(line)
          \/ ReadFunctionCall(line)
          \/ ReadFunctionCallOutput(line)
          \/ ReadReasoning(line)
          \/ ReadUserMessage(line)
    \/ Return
    \/ Digest

DigestSpec == Init /\ [][DigestNext]_vars

ParserIdle == UNCHANGED <<file, pc, max_chars, locals, warnings, session>>

\* main ends with a return value
Ended(status, out) == run' = [run EXCEPT !.at = "ended", !.status = status, !.out = out]

\* an exception leaves main: the interpreter prints the traceback and the
\* exit status is 1
Uncaught(where) == run' = [run EXCEPT !.at = "raised", !.status = 1, !.raised = where]

\* lines 1477-1483: the arguments, and the directory test
MainStart(args, isdir, dir) ==
    /\ run.at = "idle"
    /\ IF isdir
       THEN run' = [run EXCEPT !.at = "parsing", !.isdir = TRUE, !.dir = dir,
                               !.args = args, !.todo = dir]
       ELSE run' = [run EXCEPT !.at = "ended", !.status = 1, !.args = args]
    /\ ParserIdle
    /\ UNCHANGED digest

\* lines 1485-1488: the next file of the list comprehension
ParseFile ==
    /\ run.at = "parsing"
    /\ run.todo # <<>>
    /\ IF parse_file(Head(run.todo), max_chars).ok
       THEN run' = [run EXCEPT !.todo = Tail(@),
                               !.sessions = Append(@, parse_file(Head(run.todo), max_chars).v)]
       ELSE Uncaught("parse_session")
    /\ ParserIdle
    /\ UNCHANGED digest

\* lines 1490-1492 and print_list (lines 644-655): the sessions by start
\* time, newest first, at most --limit of them
ListSessions ==
    /\ run.at = "parsing"
    /\ run.todo = <<>>
    /\ run.args.list
    /\ IF SortedByStart(run.sessions).ok
       THEN run' = [run EXCEPT !.at = "ended", !.status = 0, !.out = "list",
                               !.listing = Take(SortedByStart(run.sessions).v, ListLimit)]
       ELSE Uncaught("sorted")
    /\ ParserIdle
    /\ UNCHANGED digest

\* lines 1495-1500: --latest
SelectLatest ==
    /\ run.at = "parsing"
    /\ run.todo = <<>>
    /\ ~run.args.list
    /\ run.args.latest
    /\ IF ~SortedByStart(run.sessions).ok THEN Uncaught("sorted")
       ELSE IF run.sessions = <<>> THEN Ended(1, "")
       ELSE run' = [run EXCEPT !.at = "selected",
                               !.chosen = <<SortedByStart(run.sessions).v[1]>>]
    /\ ParserIdle
    /\ UNCHANGED digest

\* lines 1501-1507: a session id or prefix
SelectById ==
    /\ run.at = "parsing"
    /\ run.todo = <<>>
    /\ ~run.args.list
    /\ ~run.args.latest
    /\ run.args.session_id # <<>>
    /\ IF select_session(run.sessions, run.args.session_id).session = <<>>
       THEN Ended(1, "")
       ELSE run' = [run EXCEPT !.at = "selected",
                               !.chosen = select_session(run.sessions, run.args.session_id).session]
    /\ ParserIdle
    /\ UNCHANGED digest

\* lines 1508-1510: neither --latest nor a session id
PrintHelp ==
    /\ run.at = "parsing"
    /\ run.todo = <<>>
    /\ ~run.args.list
    /\ ~run.args.latest
    /\ run.args.session_id = <<>>
    /\ Ended(1, "")
    /\ ParserIdle
    /\ UNCHANGED digest

\* lines 1512-1522 and 1531-1541: the HTML view, with --open or by default
ShowHtml ==
    /\ run.at = "selected"
    /\ run.args.open \/ ~run.args.digest
    /\ Ended(0, "html")
    /\ ParserIdle
    /\ UNCHANGED digest

\* lines 1524-1529: --digest
PrintDigest ==
    /\ run.at = "selected"
    /\ ~run.args.open
    /\ run.args.digest
    /\ Ended(0, "digest")
    /\ digest' = generate_digest(run.chosen[1].session)
    /\ ParserIdle

MainNext ==
    \/ \E args \in ArgSets, dir \in Directories :
          MainStart(args, TRUE, dir) \/ MainStart(args, FALSE, <<>>)
    \/ ParseFile
    \/ ListSessions
    \/ SelectLatest
    \/ SelectById
    \/ PrintHelp
    \/ ShowHtml
    \/ PrintDigest

MainSpec == Init /\ [][MainNext]_vars

(***************************************************************************)
(* Properties.                                                             *)
(***************************************************************************)
\* the branches of the loop body that call add_event
EventBranches ==
    {"session_meta", "turn_context", "message", "function_call", "function_call_output",
     "reasoning", "ghost_snapshot", "user_message", "agent_message", "agent_reasoning",
     "token_count", "event_msg_other"}

\* the lines of the file that created events[1], events[2], ... of a run
\* that has not raised
EventLines == SelectSeq(file, LAMBDA line : BranchOf(L0, line) \in EventBranches)

\* the branch in which the last line read raised (locals are those before it)
RaisedIn == BranchOf(Locals, file[Len(file)])

\* the file with the lines that are not valid JSON removed
WithoutMalformed(lines) == SelectSeq(lines, LAMBDA line : line.form # "malformed")

\* C1: a line that is not valid JSON is dropped without aborting
\* parse_session: at every point the parser is where it would be on the same
\* file with the malformed lines removed -- it has raised only if that run
\* raises, holds the same locals, and returns the same dictionary (so the
\* same events in the same order).
C1_MalformedLinesDropped ==
    LET r == ParseLines(L0, WithoutMalformed(file), max_chars)
    IN  /\ (pc = "raised") <=> ~r.ok
        /\ pc = "reading" => r.v = Locals
        /\ pc = "done" => Result(r.v) = session

\* C1 witness: a malformed first line, and a later line's event is returned
C1_Witness ==
    /\ pc = "done"
    /\ Len(file) >= 2
    /\ file[1].form = "malformed"
    /\ Len(session.events) >= 1

\* C2: a line that is valid JSON is never fatal, whatever JSON value it
\* holds and whatever the JSON types of its payload, content, output,
\* arguments and summary: parse_session does not raise on account of a
\* record's shape.
C2_UnknownShapeNeverFatal ==
    pc = "raised" => RaisedIn = "ts_type_error"

\* C3: in the returned list every adjacent pair of events that both carry a
\* timestamp is in non-decreasing timestamp order, and a second run over the
\* same input returns the events in the same order.
C3_TimelineNonDecreasing ==
    pc = "done" =>
        /\ \A i \in 1..(Len(session.events) - 1) :
              session.events[i].ts.some /\ session.events[i + 1].ts.some
                  => Instant(session.events[i].ts) <= Instant(session.events[i + 1].ts)
        /\ parse_session(file, max_chars).v.events = session.events

IsCall(line) ==
    /\ BranchOf(L0, line) = "function_call"
    /\ line.payload.call_id # ""

IsOutputOf(line, call) ==
    /\ BranchOf(L0, line) = "function_call_output"
    /\ line.payload.call_id = call.payload.call_id

\* C4: a function_call with call identifier X followed in the file by a
\* function_call_output referencing X is returned as one tool_use event with
\* the result attached, and not as two separate timeline entries.
C4_ResultFoldedIntoCall ==
    pc = "done" =>
        \A i \in 1..Len(file) : \A j \in (i + 1)..Len(file) :
            IsCall(file[i]) /\ IsOutputOf(file[j], file[i]) =>
                /\ \A k \in 1..Len(session.events) :
                      session.events[k].event_type = EVENT_TOOL_USE
                          => "result" \in DOMAIN session.events[k]
                /\ ~\E k \in 1..Len(session.events) :
                      /\ session.events[k].event_type = EVENT_POST_TOOL
                      /\ session.events[k].name = file[i].payload.call_id

\* C5: inconsistent timestamps never raise: whatever the records'
\* timestamps are (out of order, missing, unparseable, no string, with and
\* without UTC offset), parse_session does not raise on their account and a
\* finished run returns its bounds and a duration.
C5_TimestampsNeverRaise ==
    /\ pc = "raised" => RaisedIn # "ts_type_error"
    /\ pc = "done" => session.duration.known = (session.start_ts.some /\ session.end_ts.some)

\* C6: in the returned list every event without a timestamp is positioned
\* before every event that has one, whatever that timestamp is.
C6_MissingTimestampsFirst ==
    pc = "done" =>
        \A i, j \in 1..Len(session.events) :
            ~session.events[i].ts.some /\ session.events[j].ts.some => i < j

\* C7: every line that is not valid JSON produces exactly one warning: the
\* number of warnings reported equals the number of malformed lines read
\* (empty lines produce none).
C7_OneWarningPerMalformedLine ==
    warnings = Cardinality({i \in 1..Len(file) : file[i].form = "malformed"})

\* no newline and no two adjacent whitespace characters
SingleLine(text) ==
    /\ \A i \in 1..Len(text) : text[i] # "\n"
    /\ \A i \in 1..(Len(text) - 1) : ~(text[i] \in Whitespace /\ text[i + 1] \in Whitespace)

\* C8: the summary of every event is a single line without a run of
\* whitespace and at most 120 characters long.
C8_SummaryBounded ==
    \A k \in 1..Len(events) :
        SingleLine(events[k].summary) /\ Len(events[k].summary) <= EventSummaryLen

\* the complete text an event's details render, before any capping
DetailSource(line) ==
    LET b == BranchOf(L0, line)
        p == PayloadOrEmpty(line.payload)
    IN  CASE b = "session_meta" -> format_session_meta(p)
          [] b = "turn_context" -> format_turn_context(p)
          [] b = "message" -> extract_text(p.content).v
          [] b = "function_call" -> format_tool_args(p.arguments)
          [] b = "function_call_output" -> p.output.s
          [] b = "reasoning" -> extract_reasoning_text(p).v
          [] b \in {"user_message", "agent_message"} -> p.message.s
          [] b = "agent_reasoning" -> p.text.s
          [] b = "token_count" -> format_token_count(p)
          [] b \in {"ghost_snapshot", "event_msg_other"} -> json_dumps(JDict(PayloadEntries(p)))

\* the capping rule of --max-chars
Capped(text, n) ==
    IF n > 0 /\ Len(text) > n
    THEN Take(text, n) \o TruncHead \o IntText(Len(text) - n) \o TruncTail
    ELSE text

\* C9: detail capping follows max_chars for every event: with max_chars = 0
\* the details are the complete text, with max_chars = N > 0 a longer text
\* is cut to its first N characters followed by the "truncated L-N chars"
\* marker and a text of at most N characters is unchanged.
C9_DetailsFollowMaxChars ==
    pc # "raised" =>
        \A k \in 1..Len(events) :
            events[k].details = Capped(DetailSource(EventLines[k]), max_chars)

\* the output's exit indicator, if any, has a non-zero numeric value
NonZeroExit(output) ==
    /\ HasExitMatch(output)
    /\ \E i \in 1..Len(ExitGroup(output)) : ExitGroup(output)[i] # "0"

\* C10: the error flag of a post_tool_use event is true exactly when the
\* tool output contains an exit indicator whose numeric value is non-zero,
\* however many digits it is written with.
C10_ErrorIffNonZeroExit ==
    pc # "raised" =>
        \A k \in 1..Len(events) :
            events[k].event_type = EVENT_POST_TOOL =>
                (events[k].error <=> NonZeroExit(EventLines[k].payload.output.s))

\* the branches that read a reasoning record, and those that read a message
ReasoningBranches == {"reasoning", "agent_reasoning"}
MessageBranches == {"message", "user_message", "agent_message"}

\* C11: reasoning and visible text are never merged: every reasoning record
\* read yields exactly one event, of kind thinking, every message record
\* yields one of kind user or text, and the content of each such event is
\* that of its own record alone.
C11_ReasoningKeptApart ==
    LET records == SelectSeq(file, LAMBDA line :
                       BranchOf(L0, line) \in ReasoningBranches \cup MessageBranches)
        made == SelectSeq(events, LAMBDA e :
                       e.kind \in ReasoningBranches \cup MessageBranches)
    IN  /\ Len(made) = Len(records)
        /\ \A k \in 1..Min(Len(made), Len(records)) :
              /\ made[k].kind = BranchOf(L0, records[k])
              /\ made[k].details = Capped(DetailSource(records[k]), max_chars)
              /\ made[k].kind \in ReasoningBranches => made[k].event_type = EVENT_THINKING
              /\ made[k].kind \in MessageBranches
                    => made[k].event_type \in {EVENT_USER, EVENT_TEXT}

\* the closed set of event kinds (lines 32-37)
EventKinds ==
    {EVENT_USER, EVENT_THINKING, EVENT_TEXT, EVENT_TOOL_USE, EVENT_POST_TOOL, EVENT_LIFECYCLE}

\* C12: after any prefix of the file's lines every accumulated event has its
\* kind in the closed set {user, thinking, text, tool_use, post_tool_use,
\* lifecycle}; an unrecognized event_msg payload type is mapped into it.
C12_KindsClosed ==
    \A k \in 1..Len(events) : events[k].event_type \in EventKinds

\* C12 witness: an event_msg of a type the parser does not know has been read
\* and its event is of kind lifecycle
C12_Witness ==
    \E k \in 1..Len(events) :
        /\ events[k].source = "event_msg"
        /\ events[k].kind = "task_started"
        /\ events[k].event_type = EVENT_LIFECYCLE

\* C13: after any prefix of lines start_ts and end_ts are both absent or both
\* present with start_ts <= end_ts, the duration is unknown exactly when they
\* are absent and never negative, and as further lines are read start_ts
\* never moves later and end_ts never moves earlier.
C13_BoundsOrdered ==
    /\ [](/\ first_ts.some <=> last_ts.some
          /\ first_ts.some => Comparable(first_ts, last_ts) /\ Instant(first_ts) <= Instant(last_ts)
          /\ format_duration(first_ts, last_ts).known <=> (first_ts.some /\ last_ts.some)
          /\ format_duration(first_ts, last_ts).delta >= 0)
    /\ [][first_ts.some =>
            /\ first_ts'.some /\ Instant(first_ts') <= Instant(first_ts)
            /\ last_ts'.some /\ Instant(last_ts') >= Instant(last_ts)]_vars

\* C13 witness: a second timestamp earlier than the first has been read, so
\* start_ts moved and the duration is positive
C13_Witness ==
    /\ Len(file) >= 2
    /\ pc = "reading"
    /\ first_ts.some
    /\ Instant(first_ts) < Instant(last_ts)
    /\ parse_ts(file[Len(file)].timestamp) = first_ts

\* the positions of the returned events that carry a timestamp
Timestamped == {k \in 1..Len(session.events) : session.events[k].ts.some}

\* C14: the returned start_ts and end_ts are the minimum and the maximum of
\* the timestamps of the returned events, and are absent exactly when no
\* returned event has a timestamp.
C14_BoundsAreEventMinMax ==
    pc = "done" =>
        IF Timestamped = {} THEN ~session.start_ts.some /\ ~session.end_ts.some
        ELSE /\ session.start_ts.some
             /\ session.end_ts.some
             /\ \E k \in Timestamped : session.events[k].ts = session.start_ts
             /\ \E k \in Timestamped : session.events[k].ts = session.end_ts
             /\ \A k \in Timestamped :
                   /\ Instant(session.start_ts) <= Instant(session.events[k].ts)
                   /\ Instant(session.events[k].ts) <= Instant(session.end_ts)

\* the sum of a counter's counts
RECURSIVE Total(_)
Total(counts) ==
    IF DOMAIN counts = {} THEN 0
    ELSE LET n == CHOOSE n \in DOMAIN counts : TRUE
         IN  counts[n] + Total([m \in DOMAIN counts \ {n} |-> counts[m]])

\* counter agrees with the returned events on the given field
Agrees(counter, field) ==
    /\ DOMAIN counter = {session.events[k][field] : k \in 1..Len(session.events)}
    /\ \A v \in DOMAIN counter :
          counter[v] = Cardinality({k \in 1..Len(session.events) :
                                        session.events[k][field] = v})
    /\ Total(counter) = Len(session.events)

\* C15: the aggregate counters agree with the timeline: each key's count is
\* the number of returned events with that value, the counts sum to the
\* number of returned events, and tool_counts sums to the number of tool_use
\* events.
C15_CountersAgree ==
    pc = "done" =>
        /\ Agrees(session.counts_by_event, "event_type")
        /\ Agrees(session.counts_by_kind, "kind")
        /\ Agrees(session.counts_by_source, "source")
        /\ Agrees(session.counts_by_category, "category")
        /\ Total(session.tool_counts) =
              Cardinality({k \in 1..Len(session.events) :
                              session.events[k].event_type = EVENT_TOOL_USE})

\* C15 witness: a returned session with a tool call among several events
C15_Witness ==
    /\ pc = "done"
    /\ Len(session.events) >= 2
    /\ Total(session.tool_counts) >= 1
    /\ \E k \in 1..Len(session.events) : session.events[k].event_type # EVENT_TOOL_USE

\* the positions of the session_meta records of the file that carry an id
WithId ==
    {i \in 1..Len(file) :
        /\ BranchOf(L0, file[i]) = "session_meta"
        /\ Truthy(file[i].payload.id)}

\* C16: the session id is the in-stream identifier whenever any session_meta
\* record of the file carries a non-empty id, and the file name only when
\* none does.
C16_IdFromAnySessionMeta ==
    pc = "done" =>
        IF WithId = {} THEN session.id = FileName
        ELSE \E i \in WithId : session.id = file[i].payload.id.s

\* the session of an empty file, given the id, cwd, duration, model and
\* event list of s
Reduced(s) ==
    [Result(L0) EXCEPT !.id = s.id, !.cwd = s.cwd, !.duration = s.duration,
                       !.model = s.model, !.events = s.events]

\* C17: the digest is a function of the session's id, cwd, duration, model
\* and event list alone: the text produced for a session is the text
\* produced for any session that agrees with it on these five (so also for
\* the same session again), whatever its other fields hold.
C17_DigestOfFiveFields ==
    pc = "digested" => digest = generate_digest(Reduced(session))

\* a digest was produced for a session whose other fields are not those of
\* an empty file, and it lists a prompt
C17_Witness ==
    /\ pc = "digested"
    /\ session.user_messages # <<>>
    /\ session.start_ts.some
    /\ session.counts_by_event # Result(L0).counts_by_event
    /\ PromptSection(UserPrompts(session.events)) # <<>>
    /\ Reduced(session) # session

\* the user events whose text is not empty and holds no denylisted substring
WantedPrompts(evs) ==
    SelectSeq(OfKind(evs, EVENT_USER),
              LAMBDA e : e.details # <<>> /\ ~is_instruction_text(e.details))

\* C18: the prompt list holds, in timeline order, exactly the user events
\* whose text is not empty and holds no denylisted substring, the first 10
\* of them with a count of the rest; no listed prompt and not the last user
\* request holds a denylisted substring.
C18_PromptsAreTheUserTexts ==
    pc = "digested" =>
        LET wanted == WantedPrompts(session.events)
            section == PromptSection(UserPrompts(session.events))
            listed == ListedPrompts(UserPrompts(session.events))
            request == LastRequest(UserPrompts(session.events))
        IN  /\ Len(listed) = Min(Len(wanted), PromptsListed)
            /\ \A k \in 1..Min(Len(listed), Len(wanted)) :
                  listed[k] = IntText(k) \o <<".", " ", "\"">>
                                  \o Cleaned(wanted[k].details, PromptLen) \o <<"\"">>
            /\ Len(wanted) > PromptsListed
                  => section[Len(section) - 1]
                         = MoreHead \o IntText(Len(wanted) - PromptsListed) \o MoreTail
            /\ \A k \in 1..Len(listed) : ~is_instruction_text(listed[k])
            /\ \A k \in 1..Len(request) : ~is_instruction_text(request[k])

\* the visible messages the model wrote
Replies(evs) ==
    SelectSeq(evs, LAMBDA e : e.event_type = EVENT_TEXT /\ e.role = "assistant")

\* C19: the closing section reports the text of the last assistant message
\* of the timeline as the last assistant response and the last user prompt
\* that is no boilerplate as the last user request, each capped at 500
\* characters; a message of another role is never the reported response.
C19_LastOfEachAuthor ==
    pc = "digested" =>
        LET replies == Replies(session.events)
            wanted == WantedPrompts(session.events)
        IN  /\ LastResponse(session.events)
                  = IF replies = <<>> THEN <<>>
                    ELSE <<LastResponseLit,
                           QuoteLit \o QuoteNewlines(
                               Take(EventText(replies[Len(replies)]), LastLen)),
                           <<>> >>
            /\ LastRequest(UserPrompts(session.events))
                  = IF wanted = <<>> THEN <<>>
                    ELSE <<LastRequestLit,
                           QuoteLit \o Take(wanted[Len(wanted)].details, LastLen),
                           <<>> >>

\* the lines of a section between its heading and its closing blank line
Listed(section) == SubSeq(section, 3, Len(section) - 1)

NoTwoEqual(lines) ==
    \A i, j \in 1..Len(lines) : lines[i] = lines[j] => i = j

\* C20: no two lines of the "Commands Run" section are equal, no two lines
\* of the "Files Modified" section are equal, and each section lists at most
\* 15 lines.
C20_DistinctCommandsAndFiles ==
    pc = "digested" =>
        LET commands == Listed(CommandSection(Commands(session.events)))
            files == Listed(FileSection(FilesModified(session.events)))
        IN  /\ NoTwoEqual(commands)
            /\ NoTwoEqual(files)
            /\ Len(commands) <= CommandsListed
            /\ Len(files) <= FilesListed

\* is line a user message whose text is the probe phrase
IsWarmup(line) ==
    /\ BranchOf(L0, line) \in {"message", "user_message"}
    /\ DetailSource(line) = Warmup
    /\ BranchOf(L0, line) = "message" => line.payload.role = "user"

\* C21: a file that holds a single user message with the text "warmup" and
\* nothing else is parsed like any other: the session is returned and its
\* events are that one message, as an event of kind user carrying the text.
C21_WarmupIsAUserEvent ==
    (pc = "done" /\ Len(file) = 1 /\ IsWarmup(file[1]))
        => /\ Len(session.events) = 1
           /\ session.events[1].event_type = EVENT_USER
           /\ session.events[1].category = CATEGORY_USER
           /\ session.events[1].details = Capped(Warmup, max_chars)
           /\ session.user_messages = <<Warmup>>
           /\ session.counts_by_event = Counter(session.events, "event_type")

\* the file of a single "warmup" response_item message has been parsed
C21_Witness ==
    /\ pc = "done"
    /\ Len(file) = 1
    /\ IsWarmup(file[1])
    /\ BranchOf(L0, file[1]) = "message"
    /\ Len(session.events) = 1

\* the texts of the user messages of the file, in file order
UserTexts ==
    LET records == SelectSeq(file, LAMBDA line :
                       \/ BranchOf(L0, line) = "user_message"
                       \/ /\ BranchOf(L0, line) = "message"
                          /\ line.payload.role = "user")
    IN  [k \in 1..Len(records) |-> DetailSource(records[k])]

\* C24: the session's summary is the whitespace-collapsed rendering, at most
\* 70 characters long, of the first user message of the file that is not
\* empty and holds no denylisted substring, and the placeholder
\* "(no summary)" when the file has no such message.
C24_SummaryIsFirstPrompt ==
    pc \in {"done", "digested"} =>
        LET wanted == SelectSeq(UserTexts, LAMBDA text :
                          text # <<>> /\ ~is_instruction_text(text))
            cleaned == CollapseWs(Strip(wanted[1]))
        IN  /\ Len(session.summary) <= DefaultSummaryLen
            /\ session.summary
                  = IF wanted = <<>> THEN NoSummaryText
                    ELSE IF Len(cleaned) <= DefaultSummaryLen THEN cleaned
                    ELSE Take(cleaned, DefaultSummaryLen - 3) \o Dots

\* the instant of a timestamp on the UTC scale, a naive one read as local time
UtcInstant(ts) == IF ts.aware THEN ts.wall - ts.off ELSE ts.wall - LocalUtcOffset

SameInstant(a, b) ==
    /\ a.some = b.some
    /\ a.some => UtcInstant(a) = UtcInstant(b)

\* C25: ties are broken by file order: of two returned events with the same
\* instant, or both without a timestamp, the one created first (by the
\* earlier line) comes first.
C25_TiesInFileOrder ==
    pc = "done" =>
        \A i, j \in 1..Len(session.events) :
            (i < j /\ SameInstant(session.events[i].ts, session.events[j].ts))
                => session.events[i].index < session.events[j].index

\* a returned session with two events of one instant
C25_Witness ==
    /\ pc = "done"
    /\ \E i, j \in 1..Len(session.events) :
          /\ i < j
          /\ session.events[i].ts.some
          /\ SameInstant(session.events[i].ts, session.events[j].ts)

\* the lines that are neither blank nor undecodable
Decodable(lines) ==
    SelectSeq(lines, LAMBDA line : BranchOf(L0, line) \notin {"blank", "malformed"})

\* C26: a line creates at most one event, and none when it is blank or
\* undecodable; after any prefix of lines the n events created carry the
\* indices 0..n-1 in creation order and the index counter is n; the
\* returned list is a permutation of the events created.
C26_IndicesCountEvents ==
    /\ [](/\ index = Len(events)
          /\ \A k \in 1..Len(events) : events[k].index = k - 1
          /\ pc = "done" =>
                /\ Len(session.events) = Len(events)
                /\ \A k \in 1..Len(events) :
                      \E i \in 1..Len(session.events) : session.events[i] = events[k])
    /\ [][/\ Len(events') \in {Len(events), Len(events) + 1}
          /\ SubSeq(events', 1, Len(events)) = events
          /\ Len(Decodable(file')) = Len(Decodable(file)) => events' = events]_vars

\* two lines created the events 0 and 1, and the session was returned with
\* the second of them sorted first
C26_Witness ==
    /\ pc = "done"
    /\ Len(events) = 2
    /\ session.events[1].index = 1

\* main has dealt with every file of the directory or has given up
PastParsing == run.isdir /\ run.at \in {"selected", "ended", "raised"}

Paths(items) == [k \in 1..Len(items) |-> items[k].path]

\* C22: a file that cannot be opened or decoded is skipped: main does not
\* fail on it, and the sessions it goes on with are those of the remaining
\* files of the directory.
C22_UnreadableFileSkipped ==
    PastParsing =>
        /\ run.raised # "parse_session"
        /\ Paths(run.sessions) = Paths(SelectSeq(run.dir, LAMBDA f : f.readable))

\* the sessions whose id starts with the needle or whose path holds it
Matching(needle) ==
    {k \in 1..Len(run.sessions) :
        \/ StartsWith(run.sessions[k].session.id, needle)
        \/ Contains(run.sessions[k].path, needle)}

\* nothing to analyse: --latest with no session, or a session id that zero
\* or several sessions match
NoUniqueMatch ==
    IF run.args.latest THEN run.sessions = <<>>
    ELSE run.args.session_id = <<>> \/ Cardinality(Matching(run.args.session_id)) # 1

\* what main has done about the selection
SelectionSettled ==
    /\ NoUniqueMatch =>
          /\ run.at = "ended"
          /\ run.status # 0
          /\ run.out \notin {"digest", "html"}
          /\ run.chosen = <<>>
          /\ digest = <<>>
    /\ (~run.args.latest /\ run.chosen # <<>>) =>
          \E k \in Matching(run.args.session_id) :
              /\ Matching(run.args.session_id) = {k}
              /\ run.chosen = <<run.sessions[k]>>
    /\ run.out \in {"digest", "html"} => run.chosen # <<>> /\ run.status = 0

StartedBefore(a, b) ==
    \/ ~a.session.start_ts.some /\ b.session.start_ts.some
    \/ /\ a.session.start_ts.some
       /\ b.session.start_ts.some
       /\ UtcInstant(a.session.start_ts) < UtcInstant(b.session.start_ts)

\* C27: listing and --latest order the sessions by start time, newest
\* first and those without a start time last, and do not raise, whatever
\* the sessions' timestamps.
C27_NewestFirstNeverRaises ==
    (PastParsing /\ run.todo = <<>> /\ (run.args.list \/ run.args.latest)) =>
        /\ run.raised # "sorted"
        /\ run.out = "list" =>
              /\ Len(run.listing) = Min(Len(run.sessions), ListLimit)
              /\ \A i, j \in 1..Len(run.listing) :
                    i < j => ~StartedBefore(run.listing[i], run.listing[j])
        /\ run.chosen # <<>> =>
              \A k \in 1..Len(run.sessions) :
                  ~StartedBefore(run.chosen[1], run.sessions[k])

====
